---- MODULE Spec2Model ----
(***************************************************************************)
(* The vector store of the Berkshire letters RAG application:              *)
(* SimpleMemoryVectorStore (index, similarity search, JSON persistence)    *)
(* and the BerkshireVectorStore facade, as one state machine.  JavaScript  *)
(* runs each piece of code between two awaits atomically, so every action  *)
(* below is one such piece: from a call (or the resolution of the promise  *)
(* a call is suspended on) to the next await or to the return.  Beside the *)
(* store stand cosineSimilarity as a function of two vectors, the          *)
(* ingestion of a directory of PDFs (processAllPDFs,                       *)
(* processBerkshireLetters), the chunking by character count (chunkText)   *)
(* and the handler of /api/query, each with a specification of its own.    *)
(***************************************************************************)
EXTENDS Integers, Sequences, FiniteSets, TLC

VARIABLES store, detached, file, loaded, tasks, nOps, cosine, ingest, chunker, api

vars == <<store, detached, file, loaded, tasks, nOps, cosine, ingest, chunker,
         api>>

\* the store, its file and the calls of its methods
storeVars == <<store, detached, file, loaded, tasks, nOps>>

\* what no step of a store method changes
offStore == <<cosine, ingest, chunker, api>>

(***************************************************************************)
(* Bounds of the model.                                                    *)
(***************************************************************************)
\* facade calls and process starts in one behaviour
MaxOps == 3
\* records the index of one behaviour may hold
MaxDocs == 122
\* the largest absolute value of a coordinate of the vectors that
\* cosineSimilarity is applied to on its own
MaxCoord == 2
\* entries of the directory the ingestion lists
MaxFiles == 3
\* chunks MDocument.chunk makes of one PDF
MaxChunks == 2

\* characters of a text given to chunkText
MaxText == 4
\* chunkSize and overlap of chunkText
MaxSize == 3

(***************************************************************************)
(* Values.                                                                 *)
(***************************************************************************)
\* The JavaScript value undefined, as a metadata or filter value.  Reading a
\* key an object does not have yields it too.
Undefined == 0 - 1

\* The JavaScript value null.
Null == 0 - 2

BATCH_SIZE == 50

\* query(query, topK = 5, filter?)
DefaultTopK == 5

\* berkshireVectorStore.query(q, 5) in the handler of /api/query
HandlerTopK == 5

\* r.content.substring(0, 500) in the handler
ContentLimit == 500

Min(a, b) == IF a < b THEN a ELSE b

\* A parameter with a default value (topK: number = 5): the default is
\* taken when the argument is left out, which passes undefined.
orDefault(arg, default) == IF arg = Undefined THEN default ELSE arg

\* An object with no own keys, {}.
EmptyObject == [key \in {} |-> 0]

\* { year: y }
YearObject(y) == [key \in {"year"} |-> y]

\* obj[key] in JavaScript: undefined when obj has no such key.
Get(obj, key) == IF key \in DOMAIN obj THEN obj[key] ELSE Undefined

(***************************************************************************)
(* The embedding provider.  It answers a text with a vector or fails; the  *)
(* vector depends on the text only.  Vectors are kept to two integer       *)
(* coordinates, none of them the zero vector (the provider's vectors have  *)
(* norm 1).  "a" and "b" are orthogonal, "c" lies between them, so that a  *)
(* query for "c" scores the "a" and the "b" records equally.  The texts in *)
(* use are "a", "b" and "c".                                               *)
(***************************************************************************)
embedQuery(text) ==
    CASE text = "a" -> <<1, 0>>
      [] text = "b" -> <<0, 1>>
      [] OTHER      -> <<1, 1>>

embedDocuments(texts) == [j \in 1..Len(texts) |-> embedQuery(texts[j])]

(***************************************************************************)
(* Metadata handling of the facade.                                        *)
(***************************************************************************)
\* doc.metadata as the spread and the optional chaining see it: metadata is
\* optional in BerkshireDocument, and a document without it spreads no key
\* and reads undefined for every key.
metadataOf(doc) == IF "metadata" \in DOMAIN doc THEN doc.metadata ELSE EmptyObject

\* withChunkIndex with || in the place of ??: 0 is replaced like null
withChunkIndexOr(metadata, idx) ==
    [key \in DOMAIN metadata \cup {"chunkIndex"} |->
        IF key = "chunkIndex"
        THEN IF Get(metadata, "chunkIndex") \in {Undefined, Null, 0}
             THEN idx
             ELSE metadata["chunkIndex"]
        ELSE metadata[key]]

\* { ...doc.metadata, chunkIndex: doc.metadata?.chunkIndex ?? idx }
\* ?? takes its right side when the left one is null or undefined.
withChunkIndex(metadata, idx) ==
    [key \in DOMAIN metadata \cup {"chunkIndex"} |->
        IF key = "chunkIndex"
        THEN IF Get(metadata, "chunkIndex") \in {Undefined, Null}
             THEN idx
             ELSE metadata["chunkIndex"]
        ELSE metadata[key]]

\* new Document({ pageContent: doc.content, metadata: {...} }) for every
\* input document, idx counting from 0.
allChunksOf(documents) ==
    [j \in 1..Len(documents) |->
        [pageContent |-> documents[j].content,
         metadata    |-> withChunkIndex(metadataOf(documents[j]), j - 1)]]

(***************************************************************************)
(* Similarity search.                                                      *)
(***************************************************************************)
RECURSIVE sumProducts(_, _, _)
\* the loop of cosineSimilarity: a[1]*b[1] + ... + a[n]*b[n]
sumProducts(a, b, n) ==
    IF n = 0 THEN 0 ELSE sumProducts(a, b, n - 1) + a[n] * b[n]

\* cosineSimilarity with dot += a[i] * a[i]
cosineSimilarityDotOfA(a, b) ==
    [dot   |-> sumProducts(a, a, Len(a)),
     normA |-> sumProducts(a, a, Len(a)),
     normB |-> sumProducts(b, b, Len(a))]

\* The three accumulators of cosineSimilarity after its loop.  The score the
\* code returns is dot / (sqrt(normA) * sqrt(normB)); it is kept as the
\* three integers and compared exactly by scoreLess.
cosineSimilarity(a, b) ==
    [dot   |-> sumProducts(a, b, Len(a)),
     normA |-> sumProducts(a, a, Len(a)),
     normB |-> sumProducts(b, b, Len(a))]

\* sign(dot) * dot^2 * (the other score's normA * normB)
scoreKey(s, other) ==
    (IF s.dot < 0 THEN 0 - 1 ELSE 1) * s.dot * s.dot * other.normA * other.normB

\* s1 < s2 as numbers, for non-zero norms
scoreLess(s1, s2) == scoreKey(s1, s2) < scoreKey(s2, s1)

\* filterMatch with some() in the place of every()
filterMatchSome(metadata, filter) ==
    \E key \in DOMAIN filter : Get(metadata, key) = filter[key]

\* Object.entries(filter).every(([key, val]) => item.doc.metadata[key] === val)
filterMatch(metadata, filter) ==
    \A key \in DOMAIN filter : Get(metadata, key) = filter[key]

\* if (filter) { ... if (!match) return null }
passes(item, filter) == (~filter.given) \/ filterMatch(item.doc.metadata, filter.entries)

\* The items of the highest score, in the order they have in items.
highest(items) ==
    LET top == CHOOSE i \in 1..Len(items) :
                  \A j \in 1..Len(items) : ~scoreLess(items[i].score, items[j].score)
        best == items[top].score
    IN  SelectSeq(items, LAMBDA x : ~scoreLess(x.score, best))

\* The items below the highest score, in the order they have in items.
belowHighest(items) ==
    LET top == CHOOSE i \in 1..Len(items) :
                  \A j \in 1..Len(items) : ~scoreLess(items[i].score, items[j].score)
        best == items[top].score
    IN  SelectSeq(items, LAMBDA x : scoreLess(x.score, best))

\* sortByScore with a sort that is not stable: the later of two equal
\* scores comes first.
RECURSIVE sortTiesReversed(_)
sortTiesReversed(items) ==
    IF Len(items) = 0 THEN <<>>
    ELSE LET ties == highest(items)
         IN  [j \in 1..Len(ties) |-> ties[Len(ties) + 1 - j]]
                 \o sortTiesReversed(belowHighest(items))

\* .sort((a, b) => b.score - a.score).  Array.prototype.sort is stable:
\* items of higher score come first, items of equal score keep their order.
RECURSIVE sortByScore(_)
sortByScore(items) ==
    IF Len(items) = 0 THEN <<>>
    ELSE highest(items) \o sortByScore(belowHighest(items))

\* slice0 that never returns less than one item of a non-empty list
sliceAtLeastOne(items, k) ==
    SubSeq(items, 1, Min(IF k < 1 THEN 1 ELSE k, Len(items)))

\* .slice(0, k), for k >= 0
slice0(items, k) == SubSeq(items, 1, Min(k, Len(items)))

\* The chain of similaritySearch once the query embedding is known:
\* map (filter check, score), filter (drop nulls), sort, slice.  Every item
\* carries the position of its record in docs along.
rankedItems(docs, queryEmbedding, k, filter) ==
    LET indexes   == SelectSeq([j \in 1..Len(docs) |-> j],
                               LAMBDA j : passes(docs[j], filter))
        scored    == [n \in 1..Len(indexes) |->
                        [doc   |-> docs[indexes[n]].doc,
                         index |-> indexes[n],
                         score |-> cosineSimilarity(queryEmbedding,
                                                    docs[indexes[n]].embedding)]]
    IN  slice0(sortByScore(scored), k)

\* return results.map(r => r.doc)
similaritySearch(docs, queryEmbedding, k, filter) ==
    LET results == rankedItems(docs, queryEmbedding, k, filter)
    IN  [j \in 1..Len(results) |-> results[j].doc]

\* results.map((doc) => ({ content: doc.pageContent, metadata: doc.metadata }))
toBerkshireDocuments(results) ==
    [j \in 1..Len(results) |->
        [content |-> results[j].pageContent, metadata |-> results[j].metadata]]

(***************************************************************************)
(* Persistence.  this.docs of a store is normally an array; loadFromFile   *)
(* assigns whatever JSON.parse returns, so it can also be null or a plain  *)
(* object.  A store value is [kind, docs], docs being <<>> unless kind is  *)
(* "array".  The snapshot file is [kind, docs] too: "absent" (no file),    *)
(* "unparseable" (JSON.parse throws on its text), or the JSON value its    *)
(* text denotes.                                                           *)
(***************************************************************************)
\* new SimpleMemoryVectorStore(embeddings): docs = []
EmptyStore == [kind |-> "array", docs |-> <<>>]

Absent == [kind |-> "absent", docs |-> <<>>]

Unparseable == [kind |-> "unparseable", docs |-> <<>>]

\* JSON.stringify of an object leaves out the keys whose value is undefined.
stringifyObject(obj) ==
    [key \in {x \in DOMAIN obj : obj[x] # Undefined} |-> obj[key]]

\* JSON.stringify(this.docs), as the JSON value written
stringify(st) ==
    [kind |-> st.kind,
     docs |-> [j \in 1..Len(st.docs) |->
                [doc       |-> [pageContent |-> st.docs[j].doc.pageContent,
                                metadata    |-> stringifyObject(st.docs[j].doc.metadata)],
                 embedding |-> st.docs[j].embedding]]]

\* saveToFile(filePath): the file content after fs.writeFileSync
saveToFile(st) == stringify(st)

\* loadFromFile without its try/catch
loadFromFileNoCatch(f) ==
    CASE f.kind = "absent"      -> [store |-> EmptyStore, ended |-> "false"]
      [] f.kind = "unparseable" -> [store |-> EmptyStore, ended |-> "thrown"]
      [] f.kind = "null"        -> [store |-> [kind |-> "null", docs |-> <<>>],
                                    ended |-> "thrown"]
      [] OTHER                  -> [store |-> [kind |-> f.kind, docs |-> f.docs],
                                    ended |-> "true"]

\* loadFromFile(filePath) on a new store: the store afterwards and how the
\* call ended ("true" or "false" returned; "thrown" would be an exception
\* leaving the method, which its try/catch never lets happen).  A file that
\* does not parse throws inside the try before docs is assigned.  A null
\* parses, is assigned, and reading its length throws into the catch.  An
\* object parses and is assigned.
loadFromFile(f) ==
    CASE f.kind = "absent"      -> [store |-> EmptyStore, ended |-> "false"]
      [] f.kind = "unparseable" -> [store |-> EmptyStore, ended |-> "false"]
      [] f.kind = "null"        -> [store |-> [kind |-> "null", docs |-> <<>>],
                                    ended |-> "false"]
      [] OTHER                  -> [store |-> [kind |-> f.kind, docs |-> f.docs],
                                    ended |-> "true"]

\* fs.existsSync(VECTORS_FILE)
existsSync(f) == f.kind # "absent"

(***************************************************************************)
(* Inputs.                                                                 *)
(***************************************************************************)
\* BerkshireDocuments as the ingestion produces them: a letter of 2020, one
\* of 2021, one whose file name has no year (year: undefined), and one with
\* no year key at all.
A2020  == [content |-> "a", metadata |-> YearObject(2020)]
B2021  == [content |-> "b", metadata |-> YearObject(2021)]
CNoYear == [content |-> "c", metadata |-> YearObject(Undefined)]
BPlain == [content |-> "b", metadata |-> EmptyObject]

\* Documents of other callers: one without metadata, one whose chunkIndex is
\* null, one whose chunkIndex is undefined, and one that sets chunkIndex 0.
BNoMetadata     == [content |-> "b"]
BNullIndex      == [content |-> "b", metadata |-> [key \in {"chunkIndex"} |-> Null]]
BUndefinedIndex == [content |-> "b", metadata |-> [key \in {"chunkIndex"} |-> Undefined]]
AIndexZero      == [content |-> "a",
                    metadata |-> [key \in {"year", "chunkIndex"} |->
                                     IF key = "year" THEN 2020 ELSE 0]]

\* n equal documents, for the batches of addDocuments
Bulk(n) == [j \in 1..n |-> BPlain]

BulkSizes == {BATCH_SIZE, BATCH_SIZE + 1, 2 * BATCH_SIZE, 2 * BATCH_SIZE + 20}

InputLists ==
    { <<>>, <<A2020>>, <<CNoYear>>, <<A2020, B2021>>, <<B2021, A2020>>,
      <<BPlain, CNoYear>>, <<A2020, A2020>>,
      <<BNoMetadata, BPlain, BNullIndex, BUndefinedIndex, AIndexZero>> }

BulkLists == {Bulk(n) : n \in BulkSizes}

QueryTexts == {"a", "c"}

TopKs == {0, 1, 2, DefaultTopK}

\* the topK argument as a caller passes it: a number, or left out
TopKArgs == TopKs \cup {Undefined}

NoFilter == [given |-> FALSE, entries |-> EmptyObject]

Filter(entries) == [given |-> TRUE, entries |-> entries]

Filters ==
    { NoFilter, Filter(EmptyObject), Filter(YearObject(2020)), Filter(YearObject(2021)),
      Filter(YearObject(Undefined)),
      Filter([key \in {"year", "chunkIndex"} |-> IF key = "year" THEN 2020 ELSE 1]) }

Years == {2020, Undefined}

\* The store a run of addDocuments(documents) that met no failure leaves,
\* starting from an empty one.
storeOf(documents) ==
    LET chunks == allChunksOf(documents)
        vecs   == embedDocuments([j \in 1..Len(chunks) |-> chunks[j].pageContent])
    IN  [kind |-> "array",
         docs |-> [j \in 1..Len(chunks) |-> [doc |-> chunks[j], embedding |-> vecs[j]]]]

\* What the snapshot file can be when the process starts: no file, a file
\* that does not parse, JSON that is no array (null, {}), or a snapshot an
\* earlier process saved.
InitialFiles ==
    { Absent, Unparseable,
      [kind |-> "null", docs |-> <<>>], [kind |-> "object", docs |-> <<>>],
      saveToFile(storeOf(<<A2020, B2021>>)) }

(***************************************************************************)
(* Calls in flight.  tasks[t] is one caller's call of a facade method.     *)
(*   pc        where the call is suspended                                 *)
(*   at        how many calls and process starts came before it            *)
(*   ref       the store object the suspended method runs on: this.store   *)
(*             at the time of the call ("cur"), or "detached" once         *)
(*             clearIndex replaced it                                      *)
(*   documents the list addDocuments was called with; chunks: what it made *)
(*             of it; i: the offset of the batch in work                   *)
(*   sent      the requests the call made to the provider (at: the offset  *)
(*             in the call's texts of the request's first text; answer:    *)
(*             "pending", "resolved" or "rejected"); calls: their sizes    *)
(*   text, topK, year   the arguments of a query as passed; k and filter:  *)
(*             what similaritySearch is called with                        *)
(*   outcome   "ok" or the error the call was rejected with                *)
(*   result    what a query returned; hits: the positions in docs of the   *)
(*             records returned                                            *)
(*   before    the store and the file as they were when the call was made  *)
(***************************************************************************)
Tasks == {1, 2}

IdleTask ==
    [pc |-> "idle", op |-> "none", at |-> 0, ref |-> "cur", documents |-> <<>>,
     chunks |-> <<>>, i |-> 0, sent |-> <<>>,
     calls |-> <<>>, text |-> "", topK |-> Undefined, year |-> Undefined,
     k |-> 0, filter |-> NoFilter,
     outcome |-> "none", result |-> <<>>, hits |-> <<>>,
     before |-> [store |-> EmptyStore, file |-> Absent]]

\* a request to the provider for the texts from offset at on
Request(at) == [at |-> at, answer |-> "pending"]

\* sent once the provider has answered the request outstanding
answered(sent, answer) == [sent EXCEPT ![Len(sent)].answer = answer]

Suspended(t) == tasks[t].pc \in {"embedding", "added", "querying"}

CanCall(t) == /\ ~Suspended(t)
              /\ nOps < MaxOps

\* the store object a suspended method of task t runs on
StoreOf(t) == IF tasks[t].ref = "cur" THEN store ELSE detached

Called(op) ==
    [IdleTask EXCEPT !.op = op, !.at = nOps,
                     !.before = [store |-> store, file |-> file]]

\* cosine is one call of cosineSimilarity(a, b) on its own: pc is "idle"
\* (no call), "called" or "returned", score what it returned.
IdleCosine ==
    [pc |-> "idle", a |-> <<>>, b |-> <<>>,
     score |-> [dot |-> 0, normA |-> 0, normB |-> 0]]

\* ingest is one run of processBerkshireLetters or processAllPDFs: fn is
\* the function called, pc where it is ("idle": not called; "readdir" and
\* "processing": suspended on fsp.readdir and on processPDF; "returned";
\* "thrown"), files the listing, at the position in pdfFiles of the file
\* being processed, and outcomes what processPDF answered for the files so
\* far (name, parsed or not, and the documents it returned).
IdleIngest ==
    [pc |-> "idle", fn |-> "none", directoryPath |-> <<>>, metadata |-> EmptyObject,
     files |-> <<>>, pdfFiles |-> <<>>, at |-> 0, allDocuments |-> <<>>,
     outcomes |-> <<>>]

\* chunker is one call of the addDocuments that chunks by character count
\* (the vector store before SimpleMemoryVectorStore): pc is "idle" (not
\* called), "loop" (in the while loop of chunkText for documents[at]),
\* "adding" (suspended on this.store.addDocuments), "returned" or "thrown";
\* text, chunkSize, overlap, start and chunks are the parameters and the
\* locals of the chunkText in work; calls keeps, for every chunkText that
\* returned, its text and what it returned.
IdleChunker ==
    [pc |-> "idle", documents |-> <<>>, at |-> 0, text |-> <<>>,
     chunkSize |-> 0, overlap |-> 0, start |-> 0, chunks |-> <<>>,
     calls |-> <<>>, allChunks |-> <<>>]

\* api is one request to /api/query: pc is "idle" (no request), "awaiting"
\* (the handler is suspended on berkshireVectorStore.query) or "answered"
\* (the handler has returned); query is req.query, q the local of the
\* handler, at the number of facade calls made before the request, and
\* responses what the handler has sent with res.status(...).json(...).
IdleApi ==
    [pc |-> "idle", query |-> EmptyObject, q |-> "", at |-> 0, responses |-> <<>>]

\* constructor(): a new store, then this.store.loadFromFile(VECTORS_FILE)
Init ==
    /\ file \in InitialFiles
    /\ store = loadFromFile(file).store
    /\ loaded = loadFromFile(file).ended
    /\ detached = EmptyStore
    /\ tasks = [t \in Tasks |-> IdleTask]
    /\ nOps = 0
    /\ cosine = IdleCosine
    /\ ingest = IdleIngest
    /\ chunker = IdleChunker
    /\ api = IdleApi

\* The process ends and a new one starts: the module is loaded again and
\* line 217 constructs the store from the file the old process left.
Restart ==
    /\ nOps < MaxOps
    /\ nOps' = nOps + 1
    /\ store' = loadFromFile(file).store
    /\ loaded' = loadFromFile(file).ended
    /\ detached' = EmptyStore
    /\ tasks' = [t \in Tasks |-> IdleTask]
    /\ UNCHANGED file
    /\ UNCHANGED offStore

\* batchAt with the end of the slice one too low
batchAtShort(chunks, i) == SubSeq(chunks, i + 1, Min(i + BATCH_SIZE, Len(chunks)) - 1)

\* documents.slice(i, i + BATCH_SIZE)
batchAt(chunks, i) == SubSeq(chunks, i + 1, Min(i + BATCH_SIZE, Len(chunks)))

\* addDocuments with Promise.all over the batches: every batch is sent at
\* the call
addDocumentsAllAtOnce(t, documents) ==
    /\ CanCall(t)
    /\ store.kind = "array" => Len(store.docs) + Len(documents) <= MaxDocs
    /\ nOps' = nOps + 1
    /\ LET chunks == allChunksOf(documents)
           count  == (Len(chunks) + BATCH_SIZE - 1) \div BATCH_SIZE
       IN  tasks' = [tasks EXCEPT ![t] =
             [Called("addDocuments") EXCEPT
                !.documents = documents,
                !.chunks = chunks,
                !.pc     = IF Len(chunks) = 0 THEN "added" ELSE "embedding",
                !.sent   = [j \in 1..count |-> Request(BATCH_SIZE * (j - 1))],
                !.calls  = [j \in 1..count |->
                               Len(batchAt(chunks, BATCH_SIZE * (j - 1)))]]]
    /\ UNCHANGED <<store, detached, file, loaded>>
    /\ UNCHANGED offStore

\* BerkshireVectorStore.addDocuments up to its first await: the chunks are
\* built, and SimpleMemoryVectorStore.addDocuments either returns at once
\* (no documents) or sends the first batch to the provider.
addDocuments(t, documents) ==
    /\ CanCall(t)
    /\ store.kind = "array" => Len(store.docs) + Len(documents) <= MaxDocs
    /\ nOps' = nOps + 1
    /\ LET chunks == allChunksOf(documents)
       IN  tasks' = [tasks EXCEPT ![t] =
             [Called("addDocuments") EXCEPT
                !.documents = documents,
                !.chunks = chunks,
                !.pc     = IF Len(chunks) = 0 THEN "added" ELSE "embedding",
                !.sent   = IF Len(chunks) = 0 THEN <<>> ELSE <<Request(0)>>,
                !.calls  = IF Len(chunks) = 0 THEN <<>>
                           ELSE <<Len(batchAt(chunks, 0))>>]]
    /\ UNCHANGED <<store, detached, file, loaded>>
    /\ UNCHANGED offStore

\* pushBatch with unshift: the batch goes in front of the records
pushBatchFront(st, chunks, i) ==
    LET batch == batchAt(chunks, i)
        vecs  == embedDocuments([j \in 1..Len(batch) |-> batch[j].pageContent])
    IN  [st EXCEPT !.docs =
            [j \in 1..Len(batch) |-> [doc |-> batch[j], embedding |-> vecs[j]]]
                \o st.docs]

\* pushBatch that stops before the last record of the batch
pushBatchWithoutLast(st, chunks, i) ==
    LET batch == batchAt(chunks, i)
        vecs  == embedDocuments([j \in 1..Len(batch) |-> batch[j].pageContent])
    IN  [st EXCEPT !.docs = st.docs \o
            [j \in 1..(Len(batch) - 1) |-> [doc |-> batch[j], embedding |-> vecs[j]]]]

\* the docs of st after this.docs.push(...) for the batch starting at i
pushBatch(st, chunks, i) ==
    LET batch == batchAt(chunks, i)
        vecs  == embedDocuments([j \in 1..Len(batch) |-> batch[j].pageContent])
    IN  [st EXCEPT !.docs = st.docs \o
            [j \in 1..Len(batch) |-> [doc |-> batch[j], embedding |-> vecs[j]]]]

\* embedDocuments resolves for the batch at i: its records are pushed, and
\* the loop sends the next batch or ends.  On a store whose docs is no
\* array the push throws, which ends the call like a provider failure.
embedDocumentsResolved(t) ==
    /\ tasks[t].pc = "embedding"
    /\ LET task == tasks[t]
           next == task.i + BATCH_SIZE
       IN  IF StoreOf(t).kind # "array"
           THEN /\ tasks' = [tasks EXCEPT ![t].pc = "done", ![t].outcome = "TypeError",
                                           ![t].sent = answered(task.sent, "resolved")]
                /\ UNCHANGED <<store, detached>>
           ELSE /\ IF task.ref = "cur"
                   THEN /\ store' = pushBatch(store, task.chunks, task.i)
                        /\ UNCHANGED detached
                   ELSE /\ detached' = pushBatch(detached, task.chunks, task.i)
                        /\ UNCHANGED store
                /\ tasks' = [tasks EXCEPT
                      ![t].i     = next,
                      ![t].pc    = IF next < Len(task.chunks) THEN "embedding" ELSE "added",
                      ![t].sent  = IF next < Len(task.chunks)
                                   THEN Append(answered(task.sent, "resolved"), Request(next))
                                   ELSE answered(task.sent, "resolved"),
                      ![t].calls = IF next < Len(task.chunks)
                                   THEN Append(task.calls,
                                               Len(batchAt(task.chunks, next)))
                                   ELSE task.calls]
    /\ UNCHANGED <<file, loaded, nOps>>
    /\ UNCHANGED offStore

\* embedDocumentsRejected with the save in a finally block
embedDocumentsRejectedSaves(t) ==
    /\ tasks[t].pc = "embedding"
    /\ tasks' = [tasks EXCEPT ![t].pc = "done", ![t].outcome = "ProviderError",
                             ![t].sent = answered(tasks[t].sent, "rejected")]
    /\ file' = saveToFile(store)
    /\ UNCHANGED <<store, detached, loaded, nOps>>
    /\ UNCHANGED offStore

\* embedDocumentsRejected with a catch that takes the records of the call
\* out of the index again
embedDocumentsRejectedRollsBack(t) ==
    /\ tasks[t].pc = "embedding"
    /\ tasks[t].ref = "cur"
    /\ tasks' = [tasks EXCEPT ![t].pc = "done", ![t].outcome = "ProviderError",
                             ![t].sent = answered(tasks[t].sent, "rejected")]
    /\ store' = [store EXCEPT !.docs = SubSeq(@, 1, Len(@) - tasks[t].i)]
    /\ UNCHANGED <<detached, file, loaded, nOps>>
    /\ UNCHANGED offStore

\* embedDocuments rejects: the catch of the loop rethrows, the catch of the
\* facade rethrows, nothing is saved.
embedDocumentsRejected(t) ==
    /\ tasks[t].pc = "embedding"
    /\ tasks' = [tasks EXCEPT ![t].pc = "done", ![t].outcome = "ProviderError",
                             ![t].sent = answered(tasks[t].sent, "rejected")]
    /\ UNCHANGED <<store, detached, file, loaded, nOps>>
    /\ UNCHANGED offStore

\* addDocumentsSave with fs.appendFileSync: text appended to a snapshot is
\* no JSON any more
addDocumentsSaveAppends(t) ==
    /\ tasks[t].pc = "added"
    /\ file' = IF existsSync(file) THEN Unparseable ELSE saveToFile(store)
    /\ tasks' = [tasks EXCEPT ![t].pc = "done", ![t].outcome = "ok"]
    /\ UNCHANGED <<store, detached, loaded, nOps>>
    /\ UNCHANGED offStore

\* after await this.store.addDocuments(allChunks):
\* this.store.saveToFile(VECTORS_FILE), on the store the facade holds now.
\* When docs is null the text "null" is written and the log line that
\* follows throws on this.docs.length.
addDocumentsSave(t) ==
    /\ tasks[t].pc = "added"
    /\ file' = saveToFile(store)
    /\ tasks' = [tasks EXCEPT
          ![t].pc = "done",
          ![t].outcome = IF store.kind = "null" THEN "TypeError" ELSE "ok"]
    /\ UNCHANGED <<store, detached, loaded, nOps>>
    /\ UNCHANGED offStore

\* addDocumentsSaveFailed with a catch that only logs
addDocumentsSaveFailedSwallowed(t) ==
    /\ tasks[t].pc = "added"
    /\ file' \in {file, Unparseable}
    /\ tasks' = [tasks EXCEPT ![t].pc = "done", ![t].outcome = "ok"]
    /\ UNCHANGED <<store, detached, loaded, nOps>>
    /\ UNCHANGED offStore

\* saveToFile throws: mkdirSync or the opening of the file fails and the
\* file stays as it is, or writeFileSync fails after it has truncated the
\* file (disk full), which leaves text that is no JSON.  The catch of the
\* facade logs and rethrows.
addDocumentsSaveFailed(t) ==
    /\ tasks[t].pc = "added"
    /\ file' \in {file, Unparseable}
    /\ tasks' = [tasks EXCEPT ![t].pc = "done", ![t].outcome = "WriteError"]
    /\ UNCHANGED <<store, detached, loaded, nOps>>
    /\ UNCHANGED offStore

\* BerkshireVectorStore.query(query, topK = 5, filter?) up to the await of
\* embedQuery; topK is the argument as passed, k what similaritySearch gets.
query(t, text, topK, filter) ==
    /\ CanCall(t)
    /\ nOps' = nOps + 1
    /\ tasks' = [tasks EXCEPT ![t] =
          [Called("query") EXCEPT
             !.pc = "querying", !.text = text, !.topK = topK,
             !.k = orDefault(topK, DefaultTopK), !.filter = filter,
             !.sent = <<Request(0)>>]]
    /\ UNCHANGED <<store, detached, file, loaded>>
    /\ UNCHANGED offStore

\* queryByYear that leaves the year out of its call of query
queryByYearNoFilter(t, text, year, topK) ==
    /\ CanCall(t)
    /\ nOps' = nOps + 1
    /\ tasks' = [tasks EXCEPT ![t] =
          [Called("queryByYear") EXCEPT
             !.pc = "querying", !.text = text, !.topK = topK, !.year = year,
             !.k = orDefault(topK, DefaultTopK), !.sent = <<Request(0)>>]]
    /\ UNCHANGED <<store, detached, file, loaded>>
    /\ UNCHANGED offStore

\* queryByYear(query, year, topK = 5): return this.query(query, topK, { year })
queryByYear(t, text, year, topK) ==
    /\ CanCall(t)
    /\ nOps' = nOps + 1
    /\ tasks' = [tasks EXCEPT ![t] =
          [Called("queryByYear") EXCEPT
             !.pc = "querying", !.text = text, !.topK = topK, !.year = year,
             !.k = orDefault(topK, DefaultTopK),
             !.filter = Filter(YearObject(year)), !.sent = <<Request(0)>>]]
    /\ UNCHANGED <<store, detached, file, loaded>>
    /\ UNCHANGED offStore

\* embedQueryResolved with this.docs.sort(...) in the place of the sort of
\* a copy: the index is left in the order of the scores
embedQueryResolvedSortsInPlace(t) ==
    /\ tasks[t].pc = "querying"
    /\ tasks[t].ref = "cur"
    /\ store.kind = "array"
    /\ LET task   == tasks[t]
           items  == rankedItems(store.docs, embedQuery(task.text), task.k, task.filter)
           sorted == rankedItems(store.docs, embedQuery(task.text),
                                 Len(store.docs), NoFilter)
       IN  /\ store' = [store EXCEPT !.docs =
                          [j \in 1..Len(sorted) |-> store.docs[sorted[j].index]]]
           /\ tasks' = [tasks EXCEPT
                  ![t].pc      = "done",
                  ![t].outcome = "ok",
                  ![t].sent    = answered(task.sent, "resolved"),
                  ![t].hits    = [j \in 1..Len(items) |-> items[j].index],
                  ![t].result  = toBerkshireDocuments(
                                    similaritySearch(store.docs, embedQuery(task.text),
                                                     task.k, task.filter))]
    /\ UNCHANGED <<detached, file, loaded, nOps>>
    /\ UNCHANGED offStore

\* embedQuery resolves: the index is ranked and the documents are returned.
\* this.docs.map throws when docs is no array.
embedQueryResolved(t) ==
    /\ tasks[t].pc = "querying"
    /\ LET task  == tasks[t]
           items == rankedItems(StoreOf(t).docs, embedQuery(task.text), task.k, task.filter)
       IN  IF StoreOf(t).kind # "array"
           THEN tasks' = [tasks EXCEPT ![t].pc = "done", ![t].outcome = "TypeError",
                                      ![t].sent = answered(task.sent, "resolved")]
           ELSE tasks' = [tasks EXCEPT
                  ![t].pc      = "done",
                  ![t].outcome = "ok",
                  ![t].sent    = answered(task.sent, "resolved"),
                  ![t].hits    = [j \in 1..Len(items) |-> items[j].index],
                  ![t].result  = toBerkshireDocuments(
                                    similaritySearch(StoreOf(t).docs, embedQuery(task.text),
                                                     task.k, task.filter))]
    /\ UNCHANGED <<store, detached, file, loaded, nOps>>
    /\ UNCHANGED offStore

\* embedQueryRejected with one more try: the text is sent again
embedQueryRejectedRetries(t) ==
    /\ tasks[t].pc = "querying"
    /\ tasks' = [tasks EXCEPT
          ![t].sent = Append(answered(tasks[t].sent, "rejected"), Request(0))]
    /\ UNCHANGED <<store, detached, file, loaded, nOps>>
    /\ UNCHANGED offStore

\* embedQuery rejects: the facade logs and rethrows.
embedQueryRejected(t) ==
    /\ tasks[t].pc = "querying"
    /\ tasks' = [tasks EXCEPT ![t].pc = "done", ![t].outcome = "ProviderError",
                             ![t].sent = answered(tasks[t].sent, "rejected")]
    /\ UNCHANGED <<store, detached, file, loaded, nOps>>
    /\ UNCHANGED offStore

\* clearIndex that replaces the store and leaves the file alone
clearIndexKeepsFile(t) ==
    /\ CanCall(t)
    /\ \A u \in Tasks : Suspended(u) => tasks[u].ref = "cur"
    /\ nOps' = nOps + 1
    /\ store' = EmptyStore
    /\ detached' = IF \E u \in Tasks : Suspended(u) THEN store ELSE EmptyStore
    /\ tasks' = [u \in Tasks |->
                   IF u = t
                   THEN [Called("clearIndex") EXCEPT !.pc = "done", !.outcome = "ok"]
                   ELSE IF Suspended(u) THEN [tasks[u] EXCEPT !.ref = "detached"]
                   ELSE tasks[u]]
    /\ UNCHANGED <<file, loaded>>
    /\ UNCHANGED offStore

\* clearIndex(): no await in it, so it runs in one piece.  Methods that are
\* suspended on the old store object keep running on it.
clearIndex(t) ==
    /\ CanCall(t)
    /\ \A u \in Tasks : Suspended(u) => tasks[u].ref = "cur"
    /\ nOps' = nOps + 1
    /\ store' = EmptyStore
    /\ detached' = IF \E u \in Tasks : Suspended(u) THEN store ELSE EmptyStore
    /\ file' = IF existsSync(file) THEN Absent ELSE file
    /\ tasks' = [u \in Tasks |->
                   IF u = t
                   THEN [Called("clearIndex") EXCEPT !.pc = "done", !.outcome = "ok"]
                   ELSE IF Suspended(u) THEN [tasks[u] EXCEPT !.ref = "detached"]
                   ELSE tasks[u]]
    /\ UNCHANGED loaded
    /\ UNCHANGED offStore

\* The steps of the calls of task t, the arguments of its calls drawn from
\* the given sets, on a disk that takes every write.
Step(t, lists, texts, topKs, filters, years) ==
    \/ \E documents \in lists : addDocuments(t, documents)
    \/ embedDocumentsResolved(t)
    \/ embedDocumentsRejected(t)
    \/ addDocumentsSave(t)
    \/ \E text \in texts, topK \in topKs, filter \in filters :
          query(t, text, topK, filter)
    \/ \E text \in texts, year \in years, topK \in topKs :
          queryByYear(t, text, year, topK)
    \/ embedQueryResolved(t)
    \/ embedQueryRejected(t)
    \/ clearIndex(t)

\* One caller that awaits every call before it makes the next, with short
\* document lists and every kind of query.
Next == Step(1, InputLists, QueryTexts, TopKArgs, Filters, Years) \/ Restart

Spec == Init /\ [][Next]_vars

\* The same caller ingesting lists of one to three batches, with one plain
\* query and one query by year to read the index, on a disk that can fail
\* a write.
NextBatch ==
    \/ Step(1, BulkLists \cup {<<>>, <<A2020>>, <<CNoYear>>}, {"b"}, {DefaultTopK},
            {NoFilter}, {Undefined})
    \/ addDocumentsSaveFailed(1)
    \/ Restart

SpecBatch == Init /\ [][NextBatch]_vars

\* Two callers of the one store (berkshireVectorStore is shared by all the
\* importers of the module): either can make a call while the other's is
\* suspended.
NextConcurrent ==
    \/ Step(1, {<<A2020>>, <<B2021, A2020>>}, {"a"}, {Undefined}, {NoFilter}, {2020})
    \/ Step(2, {<<A2020>>, <<B2021, A2020>>}, {"a"}, {Undefined}, {NoFilter}, {2020})
    \/ Restart

SpecConcurrent == Init /\ [][NextConcurrent]_vars

\* One caller ingesting lists of one to three batches while the other
\* queries the index.
NextInterleaved ==
    \/ \E documents \in BulkLists : addDocuments(1, documents)
    \/ embedDocumentsResolved(1)
    \/ embedDocumentsRejected(1)
    \/ addDocumentsSave(1)
    \/ \E text \in {"a", "b"} : query(2, text, Undefined, NoFilter)
    \/ queryByYear(2, "a", 2020, 2)
    \/ embedQueryResolved(2)
    \/ embedQueryRejected(2)

SpecInterleaved == Init /\ [][NextInterleaved]_vars

(***************************************************************************)
(* cosineSimilarity on its own: one call on two vectors of two integer     *)
(* coordinates, the zero vector among them.                                *)
(***************************************************************************)
Vectors == {<<x, y>> : x, y \in (0 - MaxCoord)..MaxCoord}

\* a store nothing is called on, and cosineSimilarity(a, b) called
InitCosine ==
    /\ file = Absent
    /\ store = loadFromFile(Absent).store
    /\ loaded = loadFromFile(Absent).ended
    /\ detached = EmptyStore
    /\ tasks = [t \in Tasks |-> IdleTask]
    /\ nOps = 0
    /\ cosine \in {[IdleCosine EXCEPT !.pc = "called", !.a = a, !.b = b] :
                      a \in Vectors, b \in Vectors}
    /\ ingest = IdleIngest
    /\ chunker = IdleChunker
    /\ api = IdleApi

\* the call runs its loop and returns
cosineSimilarityReturns ==
    /\ cosine.pc = "called"
    /\ cosine' = [cosine EXCEPT !.pc = "returned",
                                !.score = cosineSimilarity(cosine.a, cosine.b)]
    /\ UNCHANGED <<storeVars, ingest, chunker, api>>

NextCosine == cosineSimilarityReturns

SpecCosine == InitCosine /\ [][NextCosine]_vars

(***************************************************************************)
(* Ingestion of a directory of PDFs.  A string the code looks into (a      *)
(* file name, a path) is the sequence of its characters.                   *)
(***************************************************************************)
DotPdf == <<".", "p", "d", "f">>

DigitChars == <<"0", "1", "2", "3", "4", "5", "6", "7", "8", "9">>

\* String.prototype.toLowerCase, on the letters the names here are made of
toLowerCase(str) ==
    [j \in 1..Len(str) |->
        CASE str[j] = "P" -> "p"
          [] str[j] = "D" -> "d"
          [] str[j] = "F" -> "f"
          [] OTHER        -> str[j]]

\* String.prototype.endsWith
endsWith(str, suffix) ==
    /\ Len(str) >= Len(suffix)
    /\ SubSeq(str, Len(str) - Len(suffix) + 1, Len(str)) = suffix

\* file => file.toLowerCase().endsWith('.pdf')
isPdf(fileName) == endsWith(toLowerCase(fileName), DotPdf)

\* pdfFile.match(/(\d{4})/): the first four digits in a row, <<>> for null
yearMatch(pdfFile) ==
    LET starts == {p \in 1..(Len(pdfFile) - 3) :
                     \A q \in p..(p + 3) :
                        \E d \in 1..10 : DigitChars[d] = pdfFile[q]}
    IN  IF starts = {} THEN <<>>
        ELSE LET first == CHOOSE p \in starts : \A q \in starts : p <= q
             IN  SubSeq(pdfFile, first, first + 3)

RECURSIVE parseInt(_)
\* parseInt of a string of decimal digits
parseInt(digits) ==
    IF Len(digits) = 0 THEN 0
    ELSE 10 * parseInt(SubSeq(digits, 1, Len(digits) - 1))
            + (CHOOSE d \in 1..10 : DigitChars[d] = digits[Len(digits)]) - 1

\* const year = yearMatch ? parseInt(yearMatch[1]) : undefined
yearOf(pdfFile) ==
    IF yearMatch(pdfFile) = <<>> THEN Undefined ELSE parseInt(yearMatch(pdfFile))

\* path.join(directoryPath, pdfFile)
join(directoryPath, pdfFile) == directoryPath \o <<"/">> \o pdfFile

\* path.basename(filePath, ext): the part after the last "/", without ext
\* when it ends with ext and is more than ext
basename(filePath, ext) ==
    LET slashes == {p \in 1..Len(filePath) : filePath[p] = "/"}
        last    == IF slashes = {} THEN 0
                   ELSE CHOOSE p \in slashes : \A q \in slashes : q <= p
        name    == SubSeq(filePath, last + 1, Len(filePath))
    IN  IF endsWith(name, ext) /\ Len(name) > Len(ext)
        THEN SubSeq(name, 1, Len(name) - Len(ext))
        ELSE name

\* { ...base, ...over }
spread(base, over) ==
    [key \in DOMAIN base \cup DOMAIN over |->
        IF key \in DOMAIN over THEN over[key] ELSE base[key]]

\* What processPDF(filePath, metadata) returns when the PDF parses and
\* MDocument.chunk makes n chunks of its text.  The text of a chunk is
\* kept as the file it is of and its number.
processPDF(filePath, metadata, n) ==
    [j \in 1..n |->
        [content  |-> [of |-> filePath, part |-> j - 1],
         metadata |-> spread([key \in {"source", "fileName", "type", "chunkIndex"} |->
                                 CASE key = "source"   -> filePath
                                   [] key = "fileName" -> basename(filePath, DotPdf)
                                   [] key = "type"     -> "pdf"
                                   [] OTHER            -> j - 1],
                             metadata)]]

\* the second argument of processPDF in processBerkshireLetters
lettersMetadata(pdfFile) ==
    [key \in {"company", "documentType", "year"} |->
        CASE key = "company"      -> "Berkshire Hathaway"
          [] key = "documentType" -> "shareholder_letter"
          [] OTHER                -> yearOf(pdfFile)]

\* Names of directory entries: letters named by year, in lower and upper
\* case; a text file; a PDF without a year; a PDF with five digits in a
\* row; one with two digits before its year; a backup of a PDF; and an
\* entry shorter than ".pdf".
N2023   == <<"2", "0", "2", "3", ".", "p", "d", "f">>
NUpper  == <<"l", "2", "0", "2", "1", ".", "P", "D", "F">>
NText   == <<"n", ".", "t", "x", "t">>
NPlain  == <<"r", ".", "p", "d", "f">>
NFive   == <<"1", "2", "3", "4", "5", ".", "P", "d", "f">>
NLate   == <<"1", "9", "x", "2", "0", "2", "0", ".", "p", "d", "f">>
NBackup == <<"2", "0", "2", "2", ".", "p", "d", "f", ".", "b", "a", "k">>
NShort  == <<"p", "d", "f">>

Names == {N2023, NUpper, NText, NPlain, NFive, NLate, NBackup, NShort}

\* what fsp.readdir can resolve to: up to MaxFiles different names
Listings ==
    {files \in UNION {[1..n -> Names] : n \in 0..MaxFiles} :
        \A i, j \in 1..Len(files) : i # j => files[i] # files[j]}

Directories == {<<"d">>}

\* the metadata argument of processAllPDFs: left out (= {}) or given
MetadataArgs == {EmptyObject, [key \in {"company"} |-> "Berkshire Hathaway"]}

ChunkCounts == 1..MaxChunks

\* a store nothing is called on, and no ingestion run yet
InitIngest ==
    /\ file = Absent
    /\ store = loadFromFile(Absent).store
    /\ loaded = loadFromFile(Absent).ended
    /\ detached = EmptyStore
    /\ tasks = [t \in Tasks |-> IdleTask]
    /\ nOps = 0
    /\ cosine = IdleCosine
    /\ ingest = IdleIngest
    /\ chunker = IdleChunker
    /\ api = IdleApi

\* processBerkshireLetters(directoryPath) up to its await of fsp.readdir
processBerkshireLetters(directoryPath) ==
    /\ ingest.pc = "idle"
    /\ ingest' = [IdleIngest EXCEPT !.pc = "readdir", !.fn = "processBerkshireLetters",
                                    !.directoryPath = directoryPath]
    /\ UNCHANGED <<storeVars, cosine, chunker, api>>

\* processAllPDFs(directoryPath, metadata = {}) up to its await of fsp.readdir
processAllPDFs(directoryPath, metadata) ==
    /\ ingest.pc = "idle"
    /\ ingest' = [IdleIngest EXCEPT !.pc = "readdir", !.fn = "processAllPDFs",
                                    !.directoryPath = directoryPath,
                                    !.metadata = metadata]
    /\ UNCHANGED <<storeVars, cosine, chunker, api>>

\* fsp.readdir resolves: the PDF entries are kept and the loop starts on
\* the first one, or the function returns when there is none.
readdirResolved(files) ==
    /\ ingest.pc = "readdir"
    /\ LET pdfFiles == SelectSeq(files, isPdf)
       IN  ingest' = [ingest EXCEPT
              !.files    = files,
              !.pdfFiles = pdfFiles,
              !.at       = IF Len(pdfFiles) = 0 THEN 0 ELSE 1,
              !.pc       = IF Len(pdfFiles) = 0 THEN "returned" ELSE "processing"]
    /\ UNCHANGED <<storeVars, cosine, chunker, api>>

\* fsp.readdir rejects (no such directory): nothing catches it
readdirRejected ==
    /\ ingest.pc = "readdir"
    /\ ingest' = [ingest EXCEPT !.pc = "thrown"]
    /\ UNCHANGED <<storeVars, cosine, chunker, api>>

\* the loop after the file at ingest.at: the next file, or return
nextFile(run) ==
    [run EXCEPT !.at = IF run.at < Len(run.pdfFiles) THEN run.at + 1 ELSE run.at,
                !.pc = IF run.at < Len(run.pdfFiles) THEN "processing" ELSE "returned"]

\* processPDF resolves with the n chunks of the file: they are pushed
processPDFResolved(n) ==
    /\ ingest.pc = "processing"
    /\ LET pdfFile   == ingest.pdfFiles[ingest.at]
           filePath  == join(ingest.directoryPath, pdfFile)
           metadata  == IF ingest.fn = "processBerkshireLetters"
                        THEN lettersMetadata(pdfFile)
                        ELSE ingest.metadata
           documents == processPDF(filePath, metadata, n)
       IN  ingest' = nextFile([ingest EXCEPT
              !.allDocuments = ingest.allDocuments \o documents,
              !.outcomes     = Append(ingest.outcomes,
                                      [pdfFile |-> pdfFile, parsed |-> TRUE,
                                       documents |-> documents])])
    /\ UNCHANGED <<storeVars, cosine, chunker, api>>

\* processPDFRejected without the try/catch around processPDF
processPDFRejectedAborts ==
    /\ ingest.pc = "processing"
    /\ ingest' = [ingest EXCEPT
          !.pc       = "thrown",
          !.outcomes = Append(ingest.outcomes,
                              [pdfFile |-> ingest.pdfFiles[ingest.at], parsed |-> FALSE,
                               documents |-> <<>>])]
    /\ UNCHANGED <<storeVars, cosine, chunker, api>>

\* processPDF rejects (the file cannot be read or parsed): the catch logs
\* and the loop goes on
processPDFRejected ==
    /\ ingest.pc = "processing"
    /\ ingest' = nextFile([ingest EXCEPT
          !.outcomes = Append(ingest.outcomes,
                              [pdfFile |-> ingest.pdfFiles[ingest.at], parsed |-> FALSE,
                               documents |-> <<>>])])
    /\ UNCHANGED <<storeVars, cosine, chunker, api>>

NextIngest ==
    \/ \E directoryPath \in Directories : processBerkshireLetters(directoryPath)
    \/ \E directoryPath \in Directories, metadata \in MetadataArgs :
          processAllPDFs(directoryPath, metadata)
    \/ \E files \in Listings : readdirResolved(files)
    \/ readdirRejected
    \/ \E n \in ChunkCounts : processPDFResolved(n)
    \/ processPDFRejected

SpecIngest == InitIngest /\ [][NextIngest]_vars

(***************************************************************************)
(* Chunking by character count: chunkText and the addDocuments that calls  *)
(* it.  A text is a sequence of characters; CHUNK_CONFIG (1000 and 200 in  *)
(* the source) is drawn from small sizes, among them the ones the loop     *)
(* does not end with.                                                      *)
(***************************************************************************)
Max(a, b) == IF a > b THEN a ELSE b

\* what String.prototype.trim removes, as far as the texts have it
Whitespace == {" ", "\n"}

Chars == {"a", " ", "\n"}

Texts == UNION {[1..n -> Chars] : n \in 0..MaxText}

\* str.slice(start, end): a negative index counts from the end of the
\* string, an index beyond the end is the end, and nothing is returned when
\* the start is not before the end.
sliceIndex(str, index) ==
    IF index < 0 THEN Max(Len(str) + index, 0) ELSE Min(index, Len(str))

stringSlice(str, start, end) ==
    SubSeq(str, sliceIndex(str, start) + 1, sliceIndex(str, end))

\* c.trim().length > 0
trimmedNotEmpty(c) == \E p \in 1..Len(c) : c[p] \notin Whitespace

\* the chunks.filter(...) chunkText returns
keptChunks(chunks) == SelectSeq(chunks, trimmedNotEmpty)

\* chunks.forEach((chunk, idx) => allChunks.push(new Document({...}))):
\* { ...doc.metadata, chunkIndex: idx, totalChunks: chunks.length }
documentChunks(doc, chunks) ==
    [idx \in 1..Len(chunks) |->
        [pageContent |-> chunks[idx],
         metadata    |-> spread(metadataOf(doc),
                                [key \in {"chunkIndex", "totalChunks"} |->
                                    IF key = "chunkIndex" THEN idx - 1
                                                          ELSE Len(chunks)])]]

\* pushes of one chunkText the model follows; a loop that does not end is
\* left there
MaxPushes == MaxText + 1

\* metadata of the documents: a letter's, and one that carries a
\* chunkIndex and a totalChunks of its own
Letter2020 == YearObject(2020)

Rechunked ==
    [key \in {"year", "chunkIndex", "totalChunks"} |->
        CASE key = "year"       -> 2021
          [] key = "chunkIndex" -> 7
          [] OTHER              -> 9]

\* the lists addDocuments is called with: the empty one, every text as one
\* letter, and pairs of short texts, with metadata of both kinds and without
ChunkedLists ==
    {<<>>}
      \cup {<<[content |-> text, metadata |-> Letter2020]>> : text \in Texts}
      \cup {<<[content |-> t1, metadata |-> Rechunked], [content |-> t2]>> :
               t1, t2 \in {text \in Texts : Len(text) <= 2}}

Sizes == 0..MaxSize

\* chunkText(text, chunkSize, overlap) up to its loop: chunks = [], start = 0
chunkTextCalled(c, at) ==
    [c EXCEPT !.pc = "loop", !.at = at, !.text = c.documents[at].content,
              !.start = 0, !.chunks = <<>>]

\* addDocuments(documents) up to the first chunkText, or to its await when
\* there is no document
addDocumentsChunking(documents, chunkSize, overlap) ==
    /\ chunker.pc = "idle"
    /\ chunker' =
         LET c == [chunker EXCEPT !.documents = documents,
                                  !.chunkSize = chunkSize,
                                  !.overlap = overlap]
         IN  IF documents = <<>>
             THEN [c EXCEPT !.pc = "adding"]
             ELSE chunkTextCalled(c, 1)
    /\ UNCHANGED <<storeVars, cosine, ingest, api>>

\* an iteration that advances by chunkSize only
chunkTextLoopNoOverlap ==
    /\ chunker.pc = "loop"
    /\ chunker.start < Len(chunker.text)
    /\ Len(chunker.chunks) < MaxPushes
    /\ LET end == Min(chunker.start + chunker.chunkSize, Len(chunker.text))
       IN  chunker' =
             [chunker EXCEPT
                !.chunks = Append(@, stringSlice(chunker.text, chunker.start, end)),
                !.start = @ + chunker.chunkSize]
    /\ UNCHANGED <<storeVars, cosine, ingest, api>>

\* an iteration that advances by one character at least
chunkTextLoopAlwaysAdvances ==
    /\ chunker.pc = "loop"
    /\ chunker.start < Len(chunker.text)
    /\ Len(chunker.chunks) < MaxPushes
    /\ LET end == Min(chunker.start + chunker.chunkSize, Len(chunker.text))
       IN  chunker' =
             [chunker EXCEPT
                !.chunks = Append(@, stringSlice(chunker.text, chunker.start, end)),
                !.start = @ + Max(chunker.chunkSize - chunker.overlap, 1)]
    /\ UNCHANGED <<storeVars, cosine, ingest, api>>

\* one iteration of while (start < text.length)
chunkTextLoop ==
    /\ chunker.pc = "loop"
    /\ chunker.start < Len(chunker.text)
    /\ Len(chunker.chunks) < MaxPushes
    /\ LET end == Min(chunker.start + chunker.chunkSize, Len(chunker.text))
       IN  chunker' =
             [chunker EXCEPT
                !.chunks = Append(@, stringSlice(chunker.text, chunker.start, end)),
                !.start = @ + chunker.chunkSize - chunker.overlap]
    /\ UNCHANGED <<storeVars, cosine, ingest, api>>

\* The loop ends: chunkText returns the chunks that are not blank,
\* addDocuments pushes them as Documents and goes on with the next
\* document, or awaits this.store.addDocuments(allChunks) after the last.
chunkTextReturns ==
    /\ chunker.pc = "loop"
    /\ ~(chunker.start < Len(chunker.text))
    /\ LET chunks == keptChunks(chunker.chunks)
           c == [chunker EXCEPT
                   !.calls = Append(@, [text |-> chunker.text, result |-> chunks]),
                   !.allChunks =
                       @ \o documentChunks(chunker.documents[chunker.at], chunks)]
       IN  chunker' = IF chunker.at < Len(chunker.documents)
                      THEN chunkTextCalled(c, chunker.at + 1)
                      ELSE [c EXCEPT !.pc = "adding"]
    /\ UNCHANGED <<storeVars, cosine, ingest, api>>

\* this.store.addDocuments(allChunks) resolved: addDocuments returns
storeAddDocumentsResolved ==
    /\ chunker.pc = "adding"
    /\ chunker' = [chunker EXCEPT !.pc = "returned"]
    /\ UNCHANGED <<storeVars, cosine, ingest, api>>

\* it rejected: the catch logs and rethrows
storeAddDocumentsRejected ==
    /\ chunker.pc = "adding"
    /\ chunker' = [chunker EXCEPT !.pc = "thrown"]
    /\ UNCHANGED <<storeVars, cosine, ingest, api>>

NextChunk ==
    \/ \E documents \in ChunkedLists, chunkSize \in Sizes, overlap \in Sizes :
          addDocumentsChunking(documents, chunkSize, overlap)
    \/ chunkTextLoop
    \/ chunkTextReturns
    \/ storeAddDocumentsResolved
    \/ storeAddDocumentsRejected

\* a store nothing is called on, and no call of addDocuments yet
InitChunk ==
    /\ file = Absent
    /\ store = loadFromFile(Absent).store
    /\ loaded = loadFromFile(Absent).ended
    /\ detached = EmptyStore
    /\ tasks = [t \in Tasks |-> IdleTask]
    /\ nOps = 0
    /\ cosine = IdleCosine
    /\ ingest = IdleIngest
    /\ chunker = IdleChunker
    /\ api = IdleApi

SpecChunk == InitChunk /\ [][NextChunk]_vars

\* The call is not abandoned: a step of it that can be taken is taken.
\* JavaScript runs chunkText to its return without a yield.
SpecChunkFair ==
    SpecChunk /\ WF_vars(chunkTextLoop) /\ WF_vars(chunkTextReturns)

(***************************************************************************)
(* The handler of /api/query on the exported store.  The contents of the   *)
(* records are sequences of characters here, since their length matters;   *)
(* the records come from the snapshot file the store was constructed from. *)
(***************************************************************************)
\* a content of n characters, "y" from the character after the limit on
Content(n) == [j \in 1..n |-> IF j <= ContentLimit THEN "x" ELSE "y"]

\* a record of the snapshot file
Record(n, embedding, year) ==
    [doc |-> [pageContent |-> Content(n),
              metadata    |-> [key \in {"year", "chunkIndex"} |->
                                  IF key = "year" THEN year ELSE 0]],
     embedding |-> embedding]

\* lengths of the contents around the limit
ContentLengths ==
    <<1, ContentLimit - 1, ContentLimit, ContentLimit + 1, ContentLimit + 2,
      2 * ContentLimit, 0>>

\* The snapshot files of the handler's store: seven records, more than the
\* handler asks for; two records; none; and the text null.
ApiFiles ==
    { [kind |-> "array",
       docs |-> [j \in 1..Len(ContentLengths) |->
                    Record(ContentLengths[j],
                           IF j % 2 = 1 THEN <<1, 0>> ELSE <<1, 1>>, 2020)]],
      [kind |-> "array",
       docs |-> <<Record(ContentLimit, <<0, 1>>, 2021),
                  Record(ContentLimit + 1, <<1, 0>>, 2020)>>],
      Absent,
      [kind |-> "null", docs |-> <<>>] }

\* req.query: without q, with an empty q, with a text
Queries == {EmptyObject} \cup {[key \in {"q"} |-> text] : text \in {"", "a", "b"}}

\* (req.query.q as string) || ''
qOf(params) ==
    IF "q" \in DOMAIN params /\ params["q"] # "" THEN params["q"] ELSE ""

\* the excerpt that always ends in the dots from the limit on
excerptDotsAtLimit(content) ==
    SubSeq(content, 1, Min(ContentLimit, Len(content)))
      \o (IF Len(content) >= ContentLimit THEN <<".", ".", ".">> ELSE <<>>)

\* r.content.substring(0, 500) + (r.content.length > 500 ? '...' : '')
excerpt(content) ==
    SubSeq(content, 1, Min(ContentLimit, Len(content)))
      \o (IF Len(content) > ContentLimit THEN <<".", ".", ".">> ELSE <<>>)

\* results.map(r => ({ content: ..., metadata: r.metadata }))
excerpts(results) ==
    [j \in 1..Len(results) |->
        [content |-> excerpt(results[j].content), metadata |-> results[j].metadata]]

\* res.status(status).json(body)
Response(status, body) == [status |-> status, body |-> body]

\* err?.message ?? 'Unknown error': the errors of the store are Error
\* objects, told apart by their name here, which stands for the message
messageOf(outcome) == outcome

\* a store constructed from one of the files, and no request yet
InitApi ==
    /\ file \in ApiFiles
    /\ store = loadFromFile(file).store
    /\ loaded = loadFromFile(file).ended
    /\ detached = EmptyStore
    /\ tasks = [t \in Tasks |-> IdleTask]
    /\ nOps = 0
    /\ cosine = IdleCosine
    /\ ingest = IdleIngest
    /\ chunker = IdleChunker
    /\ api = IdleApi

\* handler(req, res) up to its return of the 400 or, through
\* berkshireVectorStore.query(q, 5), to the await of embedQuery
handler(t, params) ==
    /\ api.pc \in {"idle", "answered"}
    /\ CanCall(t)
    /\ LET q == qOf(params)
           request == [IdleApi EXCEPT !.query = params, !.q = q, !.at = nOps]
       IN  IF q = ""
           THEN /\ api' = [request EXCEPT
                             !.pc = "answered",
                             !.responses =
                                 <<Response(400, [error |-> "Missing query parameter q"])>>]
                /\ UNCHANGED <<tasks, nOps>>
           ELSE /\ api' = [request EXCEPT !.pc = "awaiting"]
                /\ nOps' = nOps + 1
                /\ tasks' = [tasks EXCEPT ![t] =
                      [Called("query") EXCEPT
                         !.pc = "querying", !.text = q, !.topK = HandlerTopK,
                         !.k = orDefault(HandlerTopK, DefaultTopK),
                         !.filter = NoFilter, !.sent = <<Request(0)>>]]
    /\ UNCHANGED <<store, detached, file, loaded, cosine, ingest, chunker>>

\* The promise of query is settled: the handler answers 200 with the
\* excerpts of the results, or its catch answers 500 with the message.
handlerResumes(t) ==
    /\ api.pc = "awaiting"
    /\ tasks[t].pc = "done"
    /\ api' = [api EXCEPT
          !.pc = "answered",
          !.responses =
              IF tasks[t].outcome = "ok"
              THEN <<Response(200, [query |-> api.q,
                                    results |-> excerpts(tasks[t].result)])>>
              ELSE <<Response(500, [error |-> messageOf(tasks[t].outcome)])>>]
    /\ UNCHANGED <<storeVars, cosine, ingest, chunker>>

\* requests to the handler, one after the other
NextApi ==
    \/ \E params \in Queries : handler(1, params)
    \/ embedQueryResolved(1)
    \/ embedQueryRejected(1)
    \/ handlerResumes(1)

SpecApi == InitApi /\ [][NextApi]_vars

(***************************************************************************)
(* Properties.                                                             *)
(***************************************************************************)
\* task t's query or queryByYear has returned its result
QueryReturned(t) ==
    /\ tasks[t].pc = "done"
    /\ tasks[t].op \in {"query", "queryByYear"}
    /\ tasks[t].outcome = "ok"

\* the score of the record at position n of docs for the query text
ScoreAt(docs, n, text) == cosineSimilarity(embedQuery(text), docs[n].embedding)

\* the record at position n of docs satisfies every pair of the filter
Candidate(docs, n, filter) ==
    filter.given =>
        \A key \in DOMAIN filter.entries :
            Get(docs[n].doc.metadata, key) = filter.entries[key]

\* C1: a query that returns with k >= 1 returns at most k chunks; each is a
\* record of the index (a different one each) that passes the filter; the
\* chunks are in descending order of similarity to the query embedding;
\* returned records of equal score are in insertion order; and no record
\* that passes the filter and was left out scores strictly higher than a
\* returned one.
C1_QueryReturnsTopK ==
    \A t \in Tasks :
        (QueryReturned(t) /\ tasks[t].k >= 1) =>
            LET task   == tasks[t]
                docs   == store.docs
                hits   == task.hits
                result == task.result
                score(n) == ScoreAt(docs, n, task.text)
            IN  /\ Len(result) <= task.k
                /\ Len(hits) = Len(result)
                /\ \A j \in 1..Len(result) :
                      /\ hits[j] \in 1..Len(docs)
                      /\ result[j].content = docs[hits[j]].doc.pageContent
                      /\ result[j].metadata = docs[hits[j]].doc.metadata
                      /\ Candidate(docs, hits[j], task.filter)
                /\ \A i, j \in 1..Len(result) :
                      i < j =>
                         /\ hits[i] # hits[j]
                         /\ ~scoreLess(score(hits[i]), score(hits[j]))
                         /\ ~scoreLess(score(hits[j]), score(hits[i])) => hits[i] < hits[j]
                /\ \A n \in 1..Len(docs), j \in 1..Len(result) :
                      (Candidate(docs, n, task.filter) /\ \A i \in 1..Len(hits) : hits[i] # n)
                         => ~scoreLess(score(hits[j]), score(n))

\* C1's case: a filtered query returned k = 2 records of equal score in
\* insertion order and left a third candidate out.
C1_Witness ==
    /\ QueryReturned(1)
    /\ tasks[1].filter.given
    /\ tasks[1].k = 2
    /\ Len(tasks[1].result) = 2
    /\ \E n \in 1..Len(store.docs) :
          /\ n > tasks[1].hits[2]
          /\ Candidate(store.docs, n, tasks[1].filter)
    /\ ~scoreLess(ScoreAt(store.docs, tasks[1].hits[2], tasks[1].text),
                  ScoreAt(store.docs, tasks[1].hits[1], tasks[1].text))

\* task t's addDocuments has returned without an error
AddReturned(t) ==
    /\ tasks[t].pc = "done"
    /\ tasks[t].op = "addDocuments"
    /\ tasks[t].outcome = "ok"

\* the step is a process start: only the constructor leaves a task idle
IsRestart == tasks[1].pc # "idle" /\ tasks'[1].pc = "idle"

\* C2: round trip.  When addDocuments has saved the index and the next
\* process loads the file into its new store, the loaded sequence has the
\* length of the saved one and its i-th record equals the i-th saved record
\* in content, metadata and embedding.
C2_SaveLoadRoundTrip ==
    [][ (AddReturned(1) /\ store.kind = "array" /\ IsRestart) =>
           /\ store'.kind = "array"
           /\ Len(store'.docs) = Len(store.docs)
           /\ \A i \in 1..Len(store.docs) :
                 /\ store'.docs[i].doc.pageContent = store.docs[i].doc.pageContent
                 /\ store'.docs[i].doc.metadata = store.docs[i].doc.metadata
                 /\ store'.docs[i].embedding = store.docs[i].embedding ]_vars

\* C3: a query with a filter returns a record only if, for every pair of
\* the filter, reading the key from the record's metadata gives a value
\* strictly equal to the pair's value (so the metadata has the key whenever
\* the pair's value is not undefined); on the index {year: 2020},
\* {year: 2021} the filter {year: 2020} returns, for k >= 1, the first
\* record only; and
\* without a filter every record is a candidate, so min(k, size) chunks are
\* returned.
C3_FilterStrictEquality ==
    \A t \in Tasks :
        QueryReturned(t) =>
            LET task   == tasks[t]
                result == task.result
            IN  /\ task.filter.given =>
                      \A j \in 1..Len(result), key \in DOMAIN task.filter.entries :
                          /\ Get(result[j].metadata, key) = task.filter.entries[key]
                          /\ task.filter.entries[key] # Undefined =>
                                /\ key \in DOMAIN result[j].metadata
                                /\ result[j].metadata[key] = task.filter.entries[key]
                /\ ( /\ task.filter = Filter(YearObject(2020))
                     /\ task.k >= 1
                     /\ Len(store.docs) = 2
                     /\ Get(store.docs[1].doc.metadata, "year") = 2020
                     /\ Get(store.docs[2].doc.metadata, "year") = 2021 )
                      => /\ Len(result) = 1
                         /\ result[1].content = store.docs[1].doc.pageContent
                         /\ result[1].metadata = store.docs[1].doc.metadata
                /\ ~task.filter.given => Len(result) = Min(task.k, Len(store.docs))

\* C3's case: the filter {year: 2020} on the index {year: 2020},
\* {year: 2021} returned one record.
C3_Witness ==
    /\ QueryReturned(1)
    /\ tasks[1].filter = Filter(YearObject(2020))
    /\ Len(store.docs) = 2
    /\ Get(store.docs[1].doc.metadata, "year") = 2020
    /\ Get(store.docs[2].doc.metadata, "year") = 2021
    /\ Len(tasks[1].result) = 1

Cleared(t) ==
    /\ tasks[t].pc = "done"
    /\ tasks[t].op = "clearIndex"

\* C5: once clearIndex has returned the index is empty, every query on it
\* returns an empty list (a query called on the empty store it leaves
\* returns no chunk) and there is no snapshot file; a second clearIndex
\* in that state returns without an error and leaves the store and the
\* file as they are.
C5_ClearIndexIdempotent ==
    /\ [](Cleared(1) =>
            /\ tasks[1].outcome = "ok"
            /\ store.kind = "array"
            /\ store.docs = <<>>
            /\ ~existsSync(file)
            /\ \A text \in QueryTexts, k \in TopKs, filter \in Filters :
                  toBerkshireDocuments(
                      similaritySearch(store.docs, embedQuery(text), k, filter)) = <<>>)
    /\ [][ (Cleared(1) /\ Cleared(1)' /\ nOps' # nOps) =>
              /\ tasks'[1].outcome = "ok"
              /\ store' = store
              /\ file' = file ]_vars
    /\ [](\A t \in Tasks :
            (QueryReturned(t) /\ tasks[t].before.store = EmptyStore) =>
                tasks[t].result = <<>>)

\* C5's case: clearIndex returned after a call made on a non-empty index
\* with a snapshot file.
C5_Witness ==
    /\ Cleared(1)
    /\ tasks[1].before.store.docs # <<>>
    /\ existsSync(tasks[1].before.file)

\* the records addDocuments stores for chunks, given the provider's vectors
RecordsOf(chunks) ==
    [j \in 1..Len(chunks) |->
        [doc |-> chunks[j], embedding |-> embedQuery(chunks[j].pageContent)]]

\* C6: an addDocuments of N chunks that returns has made ceil(N / 50)
\* provider calls, each but the last with 50 texts and the last with
\* N - 50 * (ceil(N / 50) - 1) texts (50, 50, 20 for 120 chunks), and the
\* index holds N records more than when it was called.
C6_BatchesOfFifty ==
    \A t \in Tasks :
        AddReturned(t) =>
            LET task  == tasks[t]
                N     == Len(task.chunks)
                count == (N + BATCH_SIZE - 1) \div BATCH_SIZE
            IN  /\ Len(task.calls) = count
                /\ \A j \in 1..(count - 1) : task.calls[j] = BATCH_SIZE
                /\ count > 0 => task.calls[count] = N - BATCH_SIZE * (count - 1)
                /\ N = 120 => task.calls = <<50, 50, 20>>
                /\ Len(store.docs) = Len(task.before.store.docs) + N

\* C6's case: 120 chunks went out as 50, 50 and 20 and the index grew by 120.
C6_Witness ==
    /\ AddReturned(1)
    /\ Len(tasks[1].chunks) = 120
    /\ tasks[1].calls = <<50, 50, 20>>
    /\ Len(store.docs) = Len(tasks[1].before.store.docs) + 120

\* task t's addDocuments was rejected because the provider failed
AddFailed(t) ==
    /\ tasks[t].pc = "done"
    /\ tasks[t].op = "addDocuments"
    /\ tasks[t].outcome = "ProviderError"

\* C7: when the provider fails on the m-th batch of an addDocuments, the
\* call fails with that error, the index is the index of before the call
\* followed by the records of the m - 1 batches before it, and the snapshot
\* file is what it was before the call.
C7_FailedBatchKeepsEarlierBatches ==
    \A t \in Tasks :
        AddFailed(t) =>
            LET task == tasks[t]
                m    == Len(task.calls)
                kept == SubSeq(task.chunks, 1, BATCH_SIZE * (m - 1))
            IN  /\ m >= 1
                /\ store.kind = task.before.store.kind
                /\ store.docs = task.before.store.docs \o RecordsOf(kept)
                /\ file = task.before.file

\* C7's case: the third batch failed on an index that had records and a
\* snapshot; two batches stay in memory.
C7_Witness ==
    /\ AddFailed(1)
    /\ Len(tasks[1].calls) = 3
    /\ tasks[1].before.store.docs # <<>>
    /\ existsSync(tasks[1].before.file)
    /\ Len(store.docs) = Len(tasks[1].before.store.docs) + 2 * BATCH_SIZE

\* what JSON keeps of a metadata object: its keys with a defined value
Written(fileMetadata, metadata) ==
    /\ DOMAIN fileMetadata = {key \in DOMAIN metadata : metadata[key] # Undefined}
    /\ \A key \in DOMAIN fileMetadata : fileMetadata[key] = metadata[key]

\* C8: when addDocuments returns (an empty list included) the snapshot file
\* exists and holds the whole index, record by record in index order: the
\* records of before the call followed by the new ones, with nothing of an
\* earlier file left in it.  A record is compared as JSON writes it:
\* content, embedding, and the metadata keys that have a value.
C8_SuccessWritesFullSnapshot ==
    \A t \in Tasks :
        AddReturned(t) =>
            /\ existsSync(file)
            /\ file.kind = store.kind
            /\ Len(file.docs) = Len(store.docs)
            /\ \A j \in 1..Len(store.docs) :
                  /\ file.docs[j].doc.pageContent = store.docs[j].doc.pageContent
                  /\ file.docs[j].embedding = store.docs[j].embedding
                  /\ Written(file.docs[j].doc.metadata, store.docs[j].doc.metadata)
            /\ store.docs = tasks[t].before.store.docs \o RecordsOf(tasks[t].chunks)

\* C8's case: an addDocuments of more than one batch returned on an index
\* that had records and a snapshot file.
C8_Witness ==
    /\ AddReturned(1)
    /\ Len(tasks[1].chunks) > BATCH_SIZE
    /\ tasks[1].before.store.docs # <<>>
    /\ tasks[1].before.file.docs # <<>>
    /\ Len(file.docs) = Len(tasks[1].before.file.docs) + Len(tasks[1].chunks)

\* the store has just been constructed: no call has been made on it
JustConstructed == \A t \in Tasks : tasks[t].pc = "idle"

\* C9: loading when there is no file, or a file that does not parse, ends
\* with false returned and nothing thrown, and leaves an empty index, on
\* which every query returns an empty list.
C9_LoadAbsentOrUnparseable ==
    /\ (JustConstructed /\ file.kind \in {"absent", "unparseable"}) =>
          /\ loaded = "false"
          /\ store.kind = "array"
          /\ store.docs = <<>>
          /\ \A text \in QueryTexts, k \in TopKs, filter \in Filters :
                toBerkshireDocuments(
                    similaritySearch(store.docs, embedQuery(text), k, filter)) = <<>>
    /\ \A t \in Tasks :
          ( /\ QueryReturned(t)
            /\ nOps = 1
            /\ tasks[t].before.file.kind \in {"absent", "unparseable"} )
             => tasks[t].result = <<>>

\* C9's case: the first call after a construction that found a file it
\* could not parse is a query, and it returned an empty list.
C9_Witness ==
    /\ QueryReturned(1)
    /\ nOps = 1
    /\ tasks[1].before.file.kind = "unparseable"
    /\ loaded = "false"
    /\ tasks[1].result = <<>>

\* C10: the constructor never throws; after it the index holds the records
\* of the file, in their order, when the file is a snapshot, and is the
\* empty index in every other case.
C10_ConstructorLoadsOrStartsEmpty ==
    JustConstructed =>
        /\ loaded # "thrown"
        /\ IF file.kind = "array"
           THEN store = [kind |-> "array", docs |-> file.docs]
           ELSE store = EmptyStore

\* the number of records of docs that pass the filter
Survivors(docs, filter) ==
    Cardinality({n \in 1..Len(docs) : Candidate(docs, n, filter)})

\* task t's query has ended and the provider had answered it
QueryAnswered(t) ==
    /\ tasks[t].pc = "done"
    /\ tasks[t].op \in {"query", "queryByYear"}
    /\ tasks[t].outcome # "ProviderError"

\* C11: a query on an index (a sequence of records, possibly empty) that the
\* provider answers is no error, whatever k >= 0 and the filter are; its
\* result has min(k, number of records passing the filter) chunks, so it is
\* empty on an empty index, when no record passes the filter and when
\* k = 0, and it holds every survivor when k is larger than their number.
C11_DegenerateQueriesReturnEmpty ==
    \A t \in Tasks :
        (QueryAnswered(t) /\ store.kind = "array" /\ tasks[t].k >= 0) =>
            LET task == tasks[t]
                n    == Survivors(store.docs, task.filter)
            IN  /\ task.outcome = "ok"
                /\ Len(task.result) = Min(task.k, n)
                /\ store.docs = <<>> => task.result = <<>>
                /\ n = 0 => task.result = <<>>
                /\ task.k = 0 => task.result = <<>>
                /\ task.k > n => Len(task.result) = n

\* C11's case: a query with k = 0 returned an empty list on an index with
\* records that pass its filter.
C11_Witness ==
    /\ QueryReturned(1)
    /\ tasks[1].k = 0
    /\ tasks[1].filter.given
    /\ Survivors(store.docs, tasks[1].filter) >= 1
    /\ tasks[1].result = <<>>

\* the document sets a chunkIndex itself: the key is there with a value
\* that is neither null nor undefined
HasChunkIndex(doc) ==
    /\ "metadata" \in DOMAIN doc
    /\ "chunkIndex" \in DOMAIN doc.metadata
    /\ doc.metadata["chunkIndex"] # Undefined
    /\ doc.metadata["chunkIndex"] # Null

\* the metadata keys of the document other than chunkIndex
OtherKeys(doc) ==
    IF "metadata" \in DOMAIN doc THEN DOMAIN doc.metadata \ {"chunkIndex"} ELSE {}

\* C12: when addDocuments returns, the record stored for the j-th input
\* document (j from 1) has the document's content; its chunkIndex is the
\* document's own when the document sets one (0 included) and j - 1 when
\* the document has no metadata, no chunkIndex key, or a null or undefined
\* chunkIndex; and its other metadata keys are the document's, with the
\* document's values.
C12_DefaultChunkIndex ==
    \A t \in Tasks :
        (AddReturned(t) /\ store.kind = "array") =>
            LET task == tasks[t]
                base == Len(task.before.store.docs)
            IN  /\ Len(store.docs) = base + Len(task.documents)
                /\ \A j \in 1..Len(task.documents) :
                      LET doc == task.documents[j]
                          rec == store.docs[base + j].doc
                      IN  /\ rec.pageContent = doc.content
                          /\ DOMAIN rec.metadata = OtherKeys(doc) \cup {"chunkIndex"}
                          /\ rec.metadata["chunkIndex"] =
                                IF HasChunkIndex(doc) THEN doc.metadata["chunkIndex"]
                                ELSE j - 1
                          /\ \A key \in OtherKeys(doc) :
                                rec.metadata[key] = doc.metadata[key]

\* C12's case: five documents were added to an index with records; the
\* first four (no metadata, no key, null, undefined) got 0, 1, 2, 3 and
\* the fifth kept its chunkIndex 0 and its year.
C12_Witness ==
    /\ AddReturned(1)
    /\ tasks[1].before.store.docs # <<>>
    /\ tasks[1].documents =
          <<BNoMetadata, BPlain, BNullIndex, BUndefinedIndex, AIndexZero>>
    /\ LET base == Len(tasks[1].before.store.docs)
       IN  /\ \A j \in 1..4 : store.docs[base + j].doc.metadata["chunkIndex"] = j - 1
           /\ store.docs[base + 5].doc.metadata["chunkIndex"] = 0
           /\ store.docs[base + 5].doc.metadata["year"] = 2020

\* what query(text, topK, filter) returns on the index docs once the
\* provider has answered, topK being the argument as passed
QueryResult(docs, text, topK, filter) ==
    toBerkshireDocuments(
        similaritySearch(docs, embedQuery(text),
                         IF topK = Undefined THEN 5 ELSE topK, filter))

\* C13: a queryByYear(text, year, topK) that returns has returned what
\* query(text, topK, {year: year}) returns on the same index with the same
\* provider answer; and a query or queryByYear called without topK returns
\* what it returns with topK = 5, which is at most 5 chunks.
C13_QueryByYearIsQuery ==
    \A t \in Tasks :
        QueryReturned(t) =>
            LET task == tasks[t]
            IN  /\ task.op = "queryByYear" =>
                      task.result = QueryResult(store.docs, task.text, task.topK,
                                                Filter(YearObject(task.year)))
                /\ task.topK = Undefined =>
                      /\ Len(task.result) <= 5
                      /\ task.op = "query" =>
                            task.result = QueryResult(store.docs, task.text, 5, task.filter)
                      /\ task.op = "queryByYear" =>
                            task.result = QueryResult(store.docs, task.text, 5,
                                                      Filter(YearObject(task.year)))

\* C13's case: queryByYear for 2020 without topK returned the 2020 records
\* of an index that holds more than five records, some not of 2020.
C13_Witness ==
    /\ QueryReturned(1)
    /\ tasks[1].op = "queryByYear"
    /\ tasks[1].topK = Undefined
    /\ tasks[1].year = 2020
    /\ Len(store.docs) > 5
    /\ Len(tasks[1].result) >= 2
    /\ \A j \in 1..Len(tasks[1].result) : tasks[1].result[j].metadata["year"] = 2020

\* the step is a call of clearIndex
IsClearIndex ==
    /\ nOps' # nOps
    /\ \E t \in Tasks : ~Suspended(t) /\ tasks'[t].op = "clearIndex"

\* the step is the start of a new process
IsProcessStart ==
    /\ nOps' # nOps
    /\ \A t \in Tasks : tasks'[t].pc = "idle"

\* C14: no step of an addDocuments or a query changes or moves a record
\* the index holds: but for clearIndex (and a new process, which reads the
\* file) the record sequence of before a step is a prefix of the one after
\* it; an addDocuments that returns has appended one record for every
\* chunk, in input order, whether or not the content was stored before.
C14_AppendOnlyBetweenClears ==
    /\ [][ (~IsClearIndex /\ ~IsProcessStart) =>
              /\ store'.kind = store.kind
              /\ Len(store'.docs) >= Len(store.docs)
              /\ SubSeq(store'.docs, 1, Len(store.docs)) = store.docs ]_vars
    /\ [](\A t \in Tasks :
            (AddReturned(t) /\ store.kind = "array") =>
                LET base == Len(tasks[t].before.store.docs)
                    N    == Len(tasks[t].chunks)
                IN  /\ Len(store.docs) = base + N
                    /\ SubSeq(store.docs, 1, base) = tasks[t].before.store.docs
                    /\ \A j \in 1..N :
                          /\ store.docs[base + j].doc = tasks[t].chunks[j]
                          /\ store.docs[base + j].embedding =
                                embedQuery(tasks[t].chunks[j].pageContent))

\* C14's case: addDocuments returned after appending a record equal to one
\* the index held already, which is still in its place.
C14_Witness ==
    /\ AddReturned(1)
    /\ LET base == Len(tasks[1].before.store.docs)
       IN  /\ base >= 2
           /\ Len(store.docs) > base
           /\ \E i \in 1..base, j \in (base + 1)..Len(store.docs) :
                 store.docs[i] = store.docs[j]

\* the provider rejected a request of task t's call
Rejected(t) ==
    \E j \in 1..Len(tasks[t].sent) : tasks[t].sent[j].answer = "rejected"

\* C15: a call whose request the provider rejected has ended with the
\* provider's error, and that request was its last: no text is sent twice
\* (the requests of an addDocuments are for its batches in turn, each at
\* most once; a query makes one request); a query that failed so has left
\* the index and the snapshot file as they were when it was called.
C15_ProviderErrorPropagatedNotRetried ==
    \A t \in Tasks :
        LET task == tasks[t]
            n    == Len(task.sent)
        IN  /\ \A j \in 1..n : task.sent[j].at = BATCH_SIZE * (j - 1)
            /\ task.op = "addDocuments" => n * BATCH_SIZE < Len(task.chunks) + BATCH_SIZE
            /\ task.op \in {"query", "queryByYear"} => n = 1
            /\ task.op \in {"none", "clearIndex"} => n = 0
            /\ \A j \in 1..n :
                  task.sent[j].answer = "rejected" =>
                      /\ j = n
                      /\ task.pc = "done"
                      /\ task.outcome = "ProviderError"
            /\ (Rejected(t) /\ task.op \in {"query", "queryByYear"}) =>
                  /\ store = task.before.store
                  /\ file = task.before.file

\* C15's case: the provider rejected the one request of a query on an
\* index with records and a snapshot file.
C15_Witness ==
    /\ Rejected(1)
    /\ tasks[1].op = "query"
    /\ tasks[1].outcome = "ProviderError"
    /\ Len(tasks[1].sent) = 1
    /\ store.docs # <<>>
    /\ existsSync(file)

\* task t's addDocuments has ended with the error of the write
WriteFailed(t) ==
    /\ tasks[t].pc = "done"
    /\ tasks[t].op = "addDocuments"
    /\ tasks[t].outcome = "WriteError"

\* C16: when an addDocuments whose batches were all embedded ends without
\* the snapshot of the index having been written, it ends with the error
\* of the write, and the index is not touched by that: it holds the
\* records of before the call followed by the records of the call.
C16_WriteErrorPropagated ==
    /\ [][ \A t \in Tasks :
              ( /\ tasks[t].pc = "added"
                /\ tasks'[t].pc = "done"
                /\ file' # saveToFile(store) ) =>
                  /\ tasks'[t].outcome = "WriteError"
                  /\ store' = store ]_vars
    /\ [](\A t \in Tasks :
            (WriteFailed(t) /\ store.kind = "array") =>
                store.docs = tasks[t].before.store.docs \o RecordsOf(tasks[t].chunks))

\* C16's case: the write failed after the two batches of a call were
\* embedded; the file is cut short and the index holds the new records.
C16_Witness ==
    /\ WriteFailed(1)
    /\ Len(tasks[1].chunks) = BATCH_SIZE + 1
    /\ file = Unparseable
    /\ tasks[1].before.file # Unparseable
    /\ Len(store.docs) = Len(tasks[1].before.store.docs) + BATCH_SIZE + 1

\* What the call of task t leaves and returns when it runs from the state
\* s = [store, file] with no other call in flight and no failure.
Alone(s, t) ==
    LET task == tasks[t]
    IN  CASE task.op = "addDocuments" ->
               LET st == [kind |-> "array",
                          docs |-> s.store.docs \o RecordsOf(task.chunks)]
               IN  [store |-> st, file |-> saveToFile(st), result |-> <<>>]
          [] task.op = "clearIndex" ->
               [store |-> EmptyStore, file |-> Absent, result |-> <<>>]
          [] OTHER ->
               [store |-> s.store, file |-> s.file,
                result |-> toBerkshireDocuments(
                              similaritySearch(s.store.docs, embedQuery(task.text),
                                               task.k, task.filter))]

\* the two calls made since the process started have both returned
BothReturned ==
    /\ nOps = 2
    /\ \A t \in Tasks : tasks[t].pc = "done" /\ tasks[t].outcome = "ok"

Appended(t) ==
    LET task == tasks[t]
        n    == Len(task.sent)
    IN  IF n = 0 THEN 0
        ELSE IF task.sent[n].answer = "resolved"
             THEN Min(task.sent[n].at + BATCH_SIZE, Len(task.chunks))
             ELSE task.sent[n].at

\* C18: at every moment of an addDocuments at most one of its requests to
\* the provider is unanswered; when the request for a batch has been made,
\* the requests for all earlier batches have been answered with vectors
\* and the index holds, after the records of before the call, the records
\* of exactly those batches, in input order; so the records of a call that
\* returns are in input order.
C18_BatchesStrictlySequential ==
    \A t \in Tasks :
        (tasks[t].op = "addDocuments" /\ store.kind = "array") =>
            LET task == tasks[t]
                n    == Len(task.sent)
            IN  /\ Cardinality({j \in 1..n : task.sent[j].answer = "pending"}) <= 1
                /\ \A j \in 1..(n - 1) :
                      /\ task.sent[j].answer = "resolved"
                      /\ task.sent[j + 1].at = task.sent[j].at + BATCH_SIZE
                /\ task.pc = "embedding" <=> (n >= 1 /\ task.sent[n].answer = "pending")
                /\ store.docs = task.before.store.docs
                                    \o RecordsOf(SubSeq(task.chunks, 1, Appended(t)))
                /\ AddReturned(t) => Appended(t) = Len(task.chunks)

\* C18's case: the request for the third batch of a call is out, the first
\* two batches are answered and their 100 records are in the index.
C18_Witness ==
    /\ tasks[1].op = "addDocuments"
    /\ tasks[1].pc = "embedding"
    /\ Len(tasks[1].sent) = 3
    /\ tasks[1].sent[3].answer = "pending"
    /\ tasks[1].before.store.docs # <<>>
    /\ Len(store.docs) = Len(tasks[1].before.store.docs) + 2 * BATCH_SIZE

\* C19: cosineSimilarity(a, b) returns dot / (sqrt(normA) * sqrt(normB))
\* with dot the inner product of a and b and normA, normB the sums of the
\* squares of a's and of b's coordinates.  For a = b other than the zero
\* vector that is 1: dot is positive and dot^2 = normA * normB.  For a and
\* b orthogonal and neither of them the zero vector it is 0: dot = 0 over
\* a divisor that is not 0.
C19_CosineOfEqualAndOrthogonal ==
    cosine.pc = "returned" =>
        LET a == cosine.a
            b == cosine.b
            s == cosine.score
        IN  /\ s.dot = a[1] * b[1] + a[2] * b[2]
            /\ s.normA = a[1] * a[1] + a[2] * a[2]
            /\ s.normB = b[1] * b[1] + b[2] * b[2]
            /\ (a = b /\ a # <<0, 0>>) =>
                  /\ s.dot > 0
                  /\ s.dot * s.dot = s.normA * s.normB
            /\ (a # <<0, 0>> /\ b # <<0, 0>> /\ a[1] * b[1] + a[2] * b[2] = 0) =>
                  /\ s.dot = 0
                  /\ s.normA * s.normB > 0

\* C19's case: cosineSimilarity returned for two orthogonal vectors, none
\* of them along an axis.
C19_Witness ==
    /\ cosine.pc = "returned"
    /\ cosine.a = <<1, 2>>
    /\ cosine.b = <<0 - 2, 1>>
    /\ cosine.score.dot = 0

\* the name ends in ".pdf", each letter in either case
EndsInPdf(name) ==
    /\ Len(name) >= 4
    /\ name[Len(name) - 3] = "."
    /\ name[Len(name) - 2] \in {"p", "P"}
    /\ name[Len(name) - 1] \in {"d", "D"}
    /\ name[Len(name)] \in {"f", "F"}

\* the digit the character stands for
DigitOf(char) == CHOOSE n \in 0..9 : DigitChars[n + 1] = char

\* four digits in a row start at position p of the name
FourDigitsAt(name, p) ==
    /\ p + 3 <= Len(name)
    /\ \A q \in p..(p + 3) : name[q] \in {"0", "1", "2", "3", "4", "5", "6", "7", "8", "9"}

\* the number the first four digits in a row of the name write, undefined
\* when the name has no four digits in a row
ExpectedYear(name) ==
    IF \E p \in 1..Len(name) : FourDigitsAt(name, p)
    THEN LET p == CHOOSE p1 \in 1..Len(name) :
                     /\ FourDigitsAt(name, p1)
                     /\ \A p2 \in 1..(p1 - 1) : ~FourDigitsAt(name, p2)
         IN  1000 * DigitOf(name[p]) + 100 * DigitOf(name[p + 1])
                + 10 * DigitOf(name[p + 2]) + DigitOf(name[p + 3])
    ELSE Undefined

RECURSIVE DocumentsOf(_)
\* the documents of the files that parsed, file after file
DocumentsOf(outcomes) ==
    IF Len(outcomes) = 0 THEN <<>>
    ELSE DocumentsOf(SubSeq(outcomes, 1, Len(outcomes) - 1))
            \o (IF outcomes[Len(outcomes)].parsed
                THEN outcomes[Len(outcomes)].documents ELSE <<>>)

\* C20: a run of processBerkshireLetters or processAllPDFs takes from the
\* listing exactly the entries whose name ends in .pdf in any case, in
\* listing order, and passes each to processPDF once, in that order; a PDF
\* that fails does not end the run (only a failing readdir does); what the
\* run returns is the documents of the PDFs that parsed, file after file
\* in listing order; and every document of processBerkshireLetters has for
\* year the number written by the first four digits in a row of its file
\* name (l2021.PDF: 2021, 12345.Pdf: 1234, 19x2020.pdf: 2020) and
\* undefined when the name has none (r.pdf).
C20_IngestionSkipsFailedPdfs ==
    LET run == ingest
    IN  /\ run.pc \in {"processing", "returned"} =>
              run.pdfFiles = SelectSeq(run.files, EndsInPdf)
        /\ Len(run.outcomes) <= Len(run.pdfFiles)
        /\ \A j \in 1..Len(run.outcomes) : run.outcomes[j].pdfFile = run.pdfFiles[j]
        /\ run.pc = "processing" => Len(run.outcomes) = run.at - 1
        /\ run.pc = "thrown" => run.outcomes = <<>>
        /\ run.pc = "returned" =>
              /\ Len(run.outcomes) = Len(run.pdfFiles)
              /\ run.allDocuments = DocumentsOf(run.outcomes)
        /\ run.fn = "processBerkshireLetters" =>
              \A j \in 1..Len(run.outcomes) :
                  \A n \in 1..Len(run.outcomes[j].documents) :
                      LET name == run.outcomes[j].pdfFile
                          doc  == run.outcomes[j].documents[n]
                      IN  /\ "year" \in DOMAIN doc.metadata
                          /\ doc.metadata["year"] = ExpectedYear(name)
                          /\ name = N2023 => doc.metadata["year"] = 2023
                          /\ name = NUpper => doc.metadata["year"] = 2021
                          /\ name = NFive => doc.metadata["year"] = 1234
                          /\ name = NLate => doc.metadata["year"] = 2020
                          /\ name = NPlain => doc.metadata["year"] = Undefined

\* C20's case: processBerkshireLetters listed 19x2020.pdf, n.txt and
\* l2021.PDF; the first PDF failed, the second gave two chunks, and the run
\* returned those two, with year 2021.
C20_Witness ==
    /\ ingest.pc = "returned"
    /\ ingest.fn = "processBerkshireLetters"
    /\ ingest.files = <<NLate, NText, NUpper>>
    /\ ~ingest.outcomes[1].parsed
    /\ Len(ingest.allDocuments) = 2
    /\ \A n \in 1..2 : ingest.allDocuments[n].metadata["year"] = 2021

\* s = chunkSize - overlap of the call in work
Stride == chunker.chunkSize - chunker.overlap

\* ceil(len(text) / s), for s > 0
WindowCount(text) == (Len(text) + Stride - 1) \div Stride

\* the characters of text from offset j * s on, chunkSize of them or as
\* many as are left
Window(text, j) ==
    SubSeq(text, j * Stride + 1, Min(j * Stride + chunker.chunkSize, Len(text)))

\* the character at position p (from 1) lies in the window of number j
InWindow(text, p, j) ==
    /\ j * Stride < p
    /\ p <= Min(j * Stride + chunker.chunkSize, Len(text))

\* a chunk of whitespace only
Blank(chunk) == \A p \in 1..Len(chunk) : chunk[p] \in {" ", "\n"}

NotBlank(chunk) == ~Blank(chunk)

\* the Documents pushed for the documents before documents[k]
RECURSIVE ChunksBefore(_)
ChunksBefore(k) ==
    IF k <= 1 THEN 0
    ELSE ChunksBefore(k - 1) + Len(chunker.calls[k - 1].result)

Chunking(n) ==
    /\ chunker.pc = "loop"
    /\ chunker.chunkSize > chunker.overlap
    /\ Len(chunker.calls) = n

\* a chunkText with overlap >= chunkSize is in its loop on a text that is
\* not empty
Stuck ==
    /\ chunker.pc = "loop"
    /\ chunker.overlap >= chunker.chunkSize
    /\ Len(chunker.text) > 0

\* C28: a chunkText with chunkSize > overlap returns, and neither the chunks
\* it has pushed nor the ones it returns are more than
\* ceil(len(text) / (chunkSize - overlap)); with overlap >= chunkSize and a
\* text that is not empty every step leaves start below the length of the
\* text and the call in its loop, so that it never returns.
C28_ChunkTextTerminatesIffStridePositive ==
    /\ \A n \in 0..2 : Chunking(n) ~> (Len(chunker.calls) > n)
    /\ [](chunker.chunkSize > chunker.overlap =>
            /\ chunker.pc = "loop" => Len(chunker.chunks) <= WindowCount(chunker.text)
            /\ \A k \in 1..Len(chunker.calls) :
                  Len(chunker.calls[k].result) <= WindowCount(chunker.calls[k].text))
    /\ [][Stuck => /\ chunker'.pc = "loop"
                   /\ chunker'.text = chunker.text
                   /\ chunker'.start < Len(chunker.text)
                   /\ chunker'.calls = chunker.calls]_vars
    /\ [](Stuck => chunker.start <= 0)

\* a chunkText with overlap > chunkSize > 0 has gone through its loop as
\* often as the model follows it, and start has gone below 0
C28_Witness ==
    /\ Stuck
    /\ chunker.chunkSize > 0
    /\ chunker.overlap > chunker.chunkSize
    /\ chunker.start < 0
    /\ Len(chunker.chunks) = MaxPushes

\* no call of a facade method is in flight
Quiet == \A t \in Tasks : tasks[t].pc \in {"idle", "done"}

\* the sequence a is the beginning of the sequence b
IsPrefix(a, b) == Len(a) <= Len(b) /\ a = SubSeq(b, 1, Len(a))

\* the file holds records, and they are the first records of the index as
\* JSON writes them
HoldsPrefix == file.kind = "array" /\ IsPrefix(file.docs, stringify(store).docs)

\* C22: when no call is in flight on the one caller's store and the index
\* is a record sequence, a snapshot file that holds records holds a prefix
\* of the index, and so does the file an addDocuments of this store has
\* left other than it found it; file and index are equal when the store
\* was constructed from a snapshot and when addDocuments has returned, and
\* there is no file when clearIndex has returned.
C22_SnapshotIsPrefixOfIndex ==
    (Quiet /\ store.kind = "array") =>
        /\ file.kind = "array" => HoldsPrefix
        /\ \A t \in Tasks :
              (/\ tasks[t].pc = "done"
               /\ tasks[t].op = "addDocuments"
               /\ file # tasks[t].before.file) => HoldsPrefix
        /\ (JustConstructed /\ file.kind = "array") => file.docs = store.docs
        /\ \A t \in Tasks : AddReturned(t) => file = stringify(store)
        /\ \A t \in Tasks : Cleared(t) => ~existsSync(file)

\* the records of the sequence docs, as a set
Range(docs) == {docs[j] : j \in 1..Len(docs)}

\* Task s's clearIndex ran while task t's addDocuments was waiting for the
\* provider: it was called after the addDocuments, it has returned and the
\* addDocuments has not, and the index it cleared did not yet hold all the
\* records of the addDocuments.
ClearedWhileEmbedding(s, t) ==
    /\ Cleared(s)
    /\ tasks[t].op = "addDocuments"
    /\ tasks[t].pc = "added"
    /\ tasks[s].at > tasks[t].at
    /\ Len(tasks[s].before.store.docs)
         < Len(tasks[t].before.store.docs) + Len(tasks[t].chunks)

\* C23: when an addDocuments during whose wait for the provider clearIndex
\* ran returns without an error, every record of its chunks is in the
\* index and, as JSON writes it, in the snapshot file.
C23_AddedChunksSurviveConcurrentClear ==
    [][\A t \in Tasks, s \in Tasks :
          (ClearedWhileEmbedding(s, t) /\ AddReturned(t)') =>
              /\ Range(RecordsOf(tasks[t].chunks)) \subseteq Range(store'.docs)
              /\ file'.kind = "array"
              /\ Range(stringify([kind |-> "array",
                                  docs |-> RecordsOf(tasks[t].chunks)]).docs)
                    \subseteq Range(file'.docs)]_vars

\* task t's addDocuments is in flight
AddInFlight(t) ==
    /\ tasks[t].op = "addDocuments"
    /\ tasks[t].pc \in {"embedding", "added"}
    /\ tasks[t].before.store.kind = "array"

\* the index task t's addDocuments was called on, followed by the records
\* of the first m batches of the call
WithBatches(t, m) ==
    tasks[t].before.store.docs
      \o RecordsOf(SubSeq(tasks[t].chunks, 1,
                          Min(m * BATCH_SIZE, Len(tasks[t].chunks))))

\* C24: when the provider answers a query while an addDocuments of the
\* other caller is in flight, the index the query ranks is the index of
\* before that addDocuments followed by the records of the first m of its
\* batches, for an m from 0 to the number of batches, and the query
\* returns the ranking of that sequence.
C24_QuerySeesWholeBatches ==
    [][\A t \in Tasks, s \in Tasks :
          (/\ AddInFlight(t)
           /\ tasks[s].pc = "querying"
           /\ QueryReturned(s)') =>
              \E m \in 0..((Len(tasks[t].chunks) + BATCH_SIZE - 1) \div BATCH_SIZE) :
                  /\ store.docs = WithBatches(t, m)
                  /\ tasks'[s].result =
                        QueryResult(WithBatches(t, m), tasks[s].text,
                                    tasks[s].topK, tasks[s].filter)]_vars

\* a query called after an addDocuments of three batches has returned five
\* records while the third batch was with the provider
C24_Witness ==
    /\ AddInFlight(1)
    /\ tasks[1].pc = "embedding"
    /\ tasks[1].i = 2 * BATCH_SIZE
    /\ QueryReturned(2)
    /\ tasks[2].at > tasks[1].at
    /\ Len(tasks[2].result) = DefaultTopK
    /\ \E j \in 1..Len(tasks[2].hits) :
          tasks[2].hits[j] > Len(tasks[1].before.store.docs)

\* the index after task t's addDocuments failed in its batch m: the index
\* of before the call and the records of the m - 1 batches before the
\* failed one
LeftByFailed(t) ==
    tasks[t].before.store.docs
      \o RecordsOf(SubSeq(tasks[t].chunks, 1,
                          (Len(tasks[t].calls) - 1) * BATCH_SIZE))

\* the step is the caller's next call of addDocuments
CallsAddDocuments ==
    /\ nOps' = nOps + 1
    /\ tasks'[1].op = "addDocuments"
    /\ tasks'[1].at = nOps

\* C25: the addDocuments called next after one that failed in its batch
\* m >= 2 starts on the index of before the failed call followed by the
\* records of the first m - 1 batches, and on the file of before the
\* failed call; and an addDocuments that returns leaves the index it was
\* called on followed by its own records, and a snapshot of all of it.  A
\* retry of the failed input so holds the records of its first m - 1
\* batches twice, in the index and in the file.
C25_RetryPersistsLeftoverBatches ==
    /\ [][(AddFailed(1) /\ Len(tasks[1].calls) >= 2 /\ CallsAddDocuments) =>
             /\ store.docs = LeftByFailed(1)
             /\ tasks'[1].before.store.docs = LeftByFailed(1)
             /\ tasks'[1].before.file = tasks[1].before.file]_vars
    /\ [](AddReturned(1) =>
             /\ store.docs = tasks[1].before.store.docs \o RecordsOf(tasks[1].chunks)
             /\ file = saveToFile(store))

\* a list of a batch and one chunk more was added again after its second
\* batch had failed on an empty index without a file: the index and the
\* file hold the first batch twice and then the last chunk
C25_Witness ==
    /\ AddReturned(1)
    /\ Len(tasks[1].chunks) = BATCH_SIZE + 1
    /\ tasks[1].before.store.docs
         = RecordsOf(SubSeq(tasks[1].chunks, 1, BATCH_SIZE))
    /\ ~existsSync(tasks[1].before.file)
    /\ Len(store.docs) = 2 * BATCH_SIZE + 1
    /\ Len(file.docs) = 2 * BATCH_SIZE + 1
    /\ SubSeq(file.docs, 1, BATCH_SIZE)
         = SubSeq(file.docs, BATCH_SIZE + 1, 2 * BATCH_SIZE)

\* C26: whatever the file held when the store was constructed, the index
\* after construction is a sequence of records, and a query that has ended
\* has returned or has failed with the error of the provider.
C26_IndexIsRecordSequenceAfterConstruction ==
    /\ JustConstructed => store.kind = "array"
    /\ \A t \in Tasks :
          (tasks[t].pc = "done" /\ tasks[t].op \in {"query", "queryByYear"})
              => tasks[t].outcome \in {"ok", "ProviderError"}

\* the caller's call in work after the step is a query or a queryByYear,
\* and the step is one of that call: the call itself, the answer of the
\* provider or its failure
IsQueryStep ==
    /\ tasks'[1].op \in {"query", "queryByYear"}
    /\ tasks'[1] # tasks[1]

\* C27: no step of a query or queryByYear changes the index or the
\* snapshot file, so that when the call has ended, with a result or with
\* an error, both are as they were when it was called; and the result is
\* the ranking of that index for the text, the k and the filter of the
\* call, the same for every call with these.
C27_QueriesAreReadOnly ==
    /\ [][IsQueryStep => (store' = store /\ detached' = detached /\ file' = file)]_vars
    /\ [](\A t \in Tasks :
            (tasks[t].pc = "done" /\ tasks[t].op \in {"query", "queryByYear"}) =>
                /\ store = tasks[t].before.store
                /\ file = tasks[t].before.file
                /\ tasks[t].outcome = "ok" =>
                      tasks[t].result
                        = toBerkshireDocuments(
                              similaritySearch(tasks[t].before.store.docs,
                                               embedQuery(tasks[t].text),
                                               tasks[t].k, tasks[t].filter)))

\* a query has returned, on an index with a snapshot file, a result that
\* has a later record of the index before an earlier one
C27_Witness ==
    /\ QueryReturned(1)
    /\ store.docs # <<>>
    /\ existsSync(file)
    /\ Len(tasks[1].hits) >= 2
    /\ tasks[1].hits[1] > tasks[1].hits[2]

\* what the handler answers with for a stored content: the content itself
\* when it has at most 500 characters, else its first 500 characters and
\* three dots
Shown(content, stored) ==
    IF Len(stored) <= 500
    THEN content = stored
    ELSE /\ Len(content) = 503
         /\ \A p \in 1..500 : content[p] = stored[p]
         /\ \A p \in 501..503 : content[p] = "."

\* C29: the handler has sent nothing while it is suspended and exactly one
\* response when it has returned: 400, with no call of the store made,
\* when q is missing or empty; 200 with the text of q and the results of
\* the store's query, at most 5, in their order and with their metadata,
\* the content of each shown as above, when the query returned; and 500
\* with the message of the error when the query threw.
C29_HandlerAnswersOnce ==
    /\ api.pc \in {"idle", "awaiting"} => api.responses = <<>>
    /\ api.pc = "answered" =>
          /\ Len(api.responses) = 1
          /\ LET response == api.responses[1]
                 missing  == "q" \notin DOMAIN api.query \/ api.query["q"] = ""
             IN  /\ missing =>
                       /\ response.status = 400
                       /\ nOps = api.at
                 /\ (~missing /\ tasks[1].outcome = "ok") =>
                       /\ tasks[1].op = "query" /\ tasks[1].at = api.at
                       /\ tasks[1].text = api.query["q"]
                       /\ response.status = 200
                       /\ response.body.query = api.query["q"]
                       /\ Len(response.body.results) <= 5
                       /\ Len(response.body.results) = Len(tasks[1].hits)
                       /\ \A j \in 1..Len(tasks[1].hits) :
                             LET stored == store.docs[tasks[1].hits[j]].doc
                                 shown  == response.body.results[j]
                             IN  /\ Shown(shown.content, stored.pageContent)
                                 /\ shown.metadata = stored.metadata
                 /\ (~missing /\ tasks[1].outcome # "ok") =>
                       /\ tasks[1].op = "query" /\ tasks[1].at = api.at
                       /\ response.status = 500
                       /\ response.body.error = tasks[1].outcome

\* the handler has answered 200 with five results from an index of more
\* records, among them contents of 500 characters and of more
C29_Witness ==
    /\ api.pc = "answered"
    /\ api.responses[1].status = 200
    /\ Len(store.docs) > 5
    /\ Len(api.responses[1].body.results) = 5
    /\ \E j \in 1..5 : Len(store.docs[tasks[1].hits[j]].doc.pageContent) = 500
    /\ \E j \in 1..5 : Len(api.responses[1].body.results[j].content) = 503
====
